---- MODULE Spec2Model ----
(***************************************************************************)
(* Multi-agent orchestration and context-assembly pipeline:                *)
(*   core/agent_controller.py  AgentSelector, MultiAgentController         *)
(*   core/chat_engine.py       ChatEngine                                  *)
(*   core/context_engine.py    ContextOrchestrator                         *)
(*   core/memory_manager.py    MemoryManager (the memory gateway)          *)
(*   models/data_models.py     ConversationCache and the result records    *)
(*                                                                         *)
(* Texts are abstract: a message is a sequence of characters,               *)
(* a prompt or a reply is a record [kind, agent, msg].  The external       *)
(* memory store keeps the records it is given and filters a read by        *)
(* exactly the identifiers and metadata filters the call passes.           *)
(***************************************************************************)
EXTENDS Integers, Sequences, FiniteSets, TLC

None == "None"

(***************************************************************************)
(* config/settings.py                                                      *)
(***************************************************************************)
PROJECT_BRAIN_ID == "project_brain"
DEFAULT_AGENT_ID == "project_brain"
CONVERSATION_CACHE_SIZE == 5
MEMORY_SEARCH_LIMIT == 5
MaxHistoryMessages == 8
MaxSpecialists == 3
\* a fallback list naming a role the profile table does not have
FallbackWithUnknownRole == <<"product_lead", "qa_tester">>

FallbackSpecialists == <<"product_lead", "solution_architect">>

\* AGENT_PROFILES in dictionary (insertion) order.
AgentOrder == <<"project_brain", "product_lead", "algo_scientist", "solution_architect">>
AGENT_PROFILES == {AgentOrder[i] : i \in 1..Len(AgentOrder)}

AgentType(a) ==
    CASE a = "project_brain" -> "orchestrator"
      [] a = "product_lead" -> "specialist"
      [] a = "algo_scientist" -> "specialist"
      [] a = "solution_architect" -> "specialist"
      [] OTHER -> None

\* expertise_keywords.  One element per character of the source string: a CJK
\* character is written as its pinyin syllable (a doubled final letter tells two
\* characters of the same syllable apart), a Latin letter as itself.
ExpertiseKeywords(a) ==
    CASE a = "project_brain" ->
           << <<"xiang","mu">>, <<"pai","qi">>, <<"zi","yuan">>, <<"li","cheng","bei">>,
              <<"xie","tiao">>, <<"zheng","he">>, <<"guan","lii">> >>
      [] a = "product_lead" ->
           << <<"xu","qiu">>, <<"yong","hu">>, <<"gong","neng">>, <<"ti","yan">>,
              <<"jiao","huu">>, <<"chan","pin","gui","hua">>, <<"shi","chang">>,
              <<"jia","zhi">> >>
      [] a = "algo_scientist" ->
           << <<"mo","xing">>, <<"suan","fa">>, <<"xun","lian">>, <<"shu","ju">>,
              <<"ping","gu">>, <<"you","huaa">>, <<"A","I">>, <<"ji","qii","xue","xi">> >>
      [] a = "solution_architect" ->
           << <<"jiaa","gou">>, <<"jii","chengg">>, <<"jiao","fu">>, <<"bu","shuu">>,
              <<"A","P","I">>, <<"xii","tong">>, <<"zu","jian">>, <<"kuo","zhan","xingg">> >>
      [] OTHER -> << >>

(***************************************************************************)
(* AgentSelector.select_specialists                                        *)
(***************************************************************************)
\* str.lower() on the characters the messages and keywords use
LowerChar(c) ==
    CASE c = "A" -> "a"
      [] c = "I" -> "i"
      [] c = "P" -> "p"
      [] OTHER -> c

Lower(s) == [i \in 1..Len(s) |-> LowerChar(s[i])]

\* str.count(sub): non-overlapping occurrences, scanning from position i
RECURSIVE CountFrom(_, _, _)
CountFrom(s, sub, i) ==
    IF i + Len(sub) - 1 > Len(s) THEN 0
    ELSE IF SubSeq(s, i, i + Len(sub) - 1) = sub
         THEN 1 + CountFrom(s, sub, i + Len(sub))
         ELSE CountFrom(s, sub, i + 1)

Count(s, sub) == CountFrom(s, sub, 1)

RECURSIVE SumCounts(_, _, _)
SumCounts(lowered, keywords, i) ==
    IF i > Len(keywords) THEN 0
    ELSE Count(lowered, Lower(keywords[i])) + SumCounts(lowered, keywords, i + 1)

Score(message, a) == SumCounts(Lower(message), ExpertiseKeywords(a), 1)

\* scored: the (agent_id, score) pairs of the specialist profiles, in table order
RECURSIVE ScoredFrom(_, _)
ScoredFrom(message, i) ==
    IF i > Len(AgentOrder) THEN << >>
    ELSE IF AgentType(AgentOrder[i]) # "specialist" THEN ScoredFrom(message, i + 1)
         ELSE << <<AgentOrder[i], Score(message, AgentOrder[i])>> >>
              \o ScoredFrom(message, i + 1)

\* list.sort(key=score, reverse=True): stable, descending
\* a sort that puts the later of two equal scores first
RECURSIVE InsertDescUnstable(_, _)
InsertDescUnstable(item, sorted) ==
    IF sorted = << >> THEN <<item>>
    ELSE IF Head(sorted)[2] > item[2]
         THEN <<Head(sorted)>> \o InsertDescUnstable(item, Tail(sorted))
         ELSE <<item>> \o sorted

RECURSIVE InsertDesc(_, _)
InsertDesc(item, sorted) ==
    IF sorted = << >> THEN <<item>>
    ELSE IF Head(sorted)[2] >= item[2]
         THEN <<Head(sorted)>> \o InsertDesc(item, Tail(sorted))
         ELSE <<item>> \o sorted

RECURSIVE SortDesc(_)
SortDesc(scored) ==
    IF scored = << >> THEN << >>
    ELSE InsertDesc(scored[Len(scored)], SortDesc(SubSeq(scored, 1, Len(scored) - 1)))

\* a filter that lets the roles without a match through
RECURSIVE PositiveIdsOrZero(_)
PositiveIdsOrZero(scored) ==
    IF scored = << >> THEN << >>
    ELSE IF Head(scored)[2] >= 0
         THEN <<Head(scored)[1]>> \o PositiveIdsOrZero(Tail(scored))
         ELSE PositiveIdsOrZero(Tail(scored))

RECURSIVE PositiveIds(_)
PositiveIds(scored) ==
    IF scored = << >> THEN << >>
    ELSE IF Head(scored)[2] > 0
         THEN <<Head(scored)[1]>> \o PositiveIds(Tail(scored))
         ELSE PositiveIds(Tail(scored))

Take(s, n) == SubSeq(s, 1, IF Len(s) < n THEN Len(s) ELSE n)

select_specialists(message) ==
    LET selected == Take(PositiveIds(SortDesc(ScoredFrom(message, 1))), MaxSpecialists)
    IN  IF selected = << >> THEN Take(FallbackSpecialists, MaxSpecialists) ELSE selected

(***************************************************************************)
(* Texts                                                                   *)
(***************************************************************************)
Text(kind, agent, msg) == [kind |-> kind, agent |-> agent, msg |-> msg]
EmptyText == Text("", None, << >>)
\* Python truthiness of a string
Truthy(t) == t # EmptyText

(***************************************************************************)
(* The external memory store (mem0 Memory) as the gateway sees it          *)
(***************************************************************************)
\* the domain every gateway method derives from a role id by the same cascade
\* (_store_memory, get_expert_memory_context, get_collaborative_context)
ExpertDomainOf(agent_id) ==
    CASE agent_id = "product_lead" -> "product"
      [] agent_id = "algo_scientist" -> "algorithm"
      [] agent_id = "solution_architect" -> "architecture"
      [] OTHER -> None

\* metadata built by _store_memory for one message
FullMetadata(role, agent_id, memory_type) ==
    [ role |-> role,
      agent_id |-> agent_id,
      memory_type |-> memory_type,
      is_project_memory |-> (agent_id = "project_brain"),
      is_expert_memory |-> (agent_id # "project_brain" /\ agent_id \in AGENT_PROFILES),
      expert_domain |-> IF agent_id # "project_brain" /\ agent_id \in AGENT_PROFILES
                        THEN ExpertDomainOf(agent_id) ELSE None ]

\* metadata of the simplified record of the fallback add
SimpleMetadata(agent_id, memory_type) ==
    [ role |-> None,
      agent_id |-> agent_id,
      memory_type |-> memory_type,
      is_project_memory |-> FALSE,
      is_expert_memory |-> FALSE,
      expert_domain |-> None ]

\* keyword parameters of a call to the store's add
AddParams(caps, user_id, agent_id, session_id) ==
    [ user_id |-> user_id,
      agent_id |-> IF agent_id # None THEN agent_id ELSE None,
      session_id |-> IF session_id # None /\ caps.add_session THEN session_id ELSE None ]

\* Memory.add: a store whose add has no agent_id / session_id parameter rejects
\* the keyword (TypeError); otherwise the environment decides (outcome)
AddRaises(caps, params, outcome) ==
    \/ outcome = "raise"
    \/ params.agent_id # None /\ ~caps.add_agent
    \/ params.session_id # None /\ ~caps.add_session

StoredRecord(params, text, metadata) ==
    [ user_id |-> params.user_id,
      agent_id |-> params.agent_id,
      session_id |-> params.session_id,
      text |-> text,
      metadata |-> metadata ]

RECURSIVE Contents(_)
Contents(messages) ==
    IF messages = << >> THEN << >>
    ELSE <<Head(messages).content>> \o Contents(Tail(messages))

(***************************************************************************)
(* MemoryManager._store_memory                                             *)
(* o1, o2: what the environment does to the first add and to the fallback  *)
(* add ("ok" or "raise").  Result: the store afterwards, the boolean       *)
(* returned, and the add calls made.                                       *)
(***************************************************************************)
\* the boolean returned after the fallback add went through: the log line that
\* follows it reads `scope`, which is bound only after a successful first add
FallbackReturn == FALSE

_store_memory(mem, caps, messages, user_id, agent_id, session_id, memory_type, o1, o2) ==
    LET params == AddParams(caps, user_id, agent_id, session_id)
        full == [i \in 1..Len(messages) |->
                    StoredRecord(params, <<messages[i].content>>,
                                 FullMetadata(messages[i].role, agent_id, memory_type))]
        simple == StoredRecord(params, Contents(messages),
                               SimpleMetadata(agent_id, memory_type))
        call1 == [params |-> params, format |-> "full", raised |-> AddRaises(caps, params, o1)]
        call2 == [params |-> params, format |-> "simple", raised |-> AddRaises(caps, params, o2)]
    IN  IF ~call1.raised
        THEN [mem |-> mem \o full, ok |-> TRUE, adds |-> <<call1>>]
        ELSE IF ~call2.raised
             THEN [mem |-> Append(mem, simple), ok |-> FallbackReturn, adds |-> <<call1, call2>>]
             ELSE [mem |-> mem, ok |-> FALSE, adds |-> <<call1, call2>>]

(***************************************************************************)
(* MemoryManager.store_memory: one _store_memory call for one message      *)
(***************************************************************************)
store_memory(mem, caps, content, user_id, agent_id, session_id, memory_type, o1, o2) ==
    _store_memory(mem, caps, <<[role |-> "assistant", content |-> content]>>,
                  user_id, agent_id, session_id, memory_type, o1, o2)

(***************************************************************************)
(* MemoryManager.add_conversation: the user-level copy, then the role copy *)
(* oa: outcomes of the adds of the first copy, ob: of the second           *)
(***************************************************************************)
FinalMemoryType(agent_id, memory_type) ==
    IF memory_type # None THEN memory_type
    ELSE IF agent_id = "project_brain" THEN "project"
    ELSE IF agent_id \in AGENT_PROFILES THEN "expert"
    ELSE "user"

add_conversation(mem, caps, messages, user_id, agent_id, session_id, memory_type, oa, ob) ==
    LET final == FinalMemoryType(agent_id, memory_type)
        first == _store_memory(mem, caps, messages, user_id, None, session_id, final,
                               oa[1], oa[2])
    IN  IF agent_id # None /\ caps.add_agent
        THEN LET second == _store_memory(first.mem, caps, messages, user_id, agent_id,
                                         session_id, final, ob[1], ob[2])
             IN  [mem |-> second.mem, ok |-> (first.ok \/ second.ok),
                  adds |-> first.adds \o second.adds]
        ELSE first

(***************************************************************************)
(* Reads: Memory.search / Memory.get_all and the gateway's normalisation   *)
(***************************************************************************)
\* what the store returns for the parameters it is passed: the records of the
\* user, narrowed by each identifier and metadata filter present in the call
\* a store in which a call without a role id sees only the records written
\* without one
MatchesExactRole(mem, params) ==
    SelectSeq(mem, LAMBDA r :
        /\ r.user_id = params.user_id
        /\ r.agent_id = params.agent_id
        /\ params.session_id # None => r.session_id = params.session_id
        /\ params.memory_type # None => r.metadata.memory_type = params.memory_type
        /\ params.expert_domain # None => r.metadata.expert_domain = params.expert_domain)

Matches(mem, params) ==
    SelectSeq(mem, LAMBDA r :
        /\ r.user_id = params.user_id
        /\ params.agent_id # None => r.agent_id = params.agent_id
        /\ params.session_id # None => r.session_id = params.session_id
        /\ params.memory_type # None => r.metadata.memory_type = params.memory_type
        /\ params.expert_domain # None => r.metadata.expert_domain = params.expert_domain)

Limited(records, limit) == Take(records, limit)

\* a gateway that never passes the role id to the store
ReadParamsWithoutRole(user_id, limit, agent_id, session_id, memory_type, expert_domain, agentCap, sessionCap, filtersCap) ==
    [ user_id |-> user_id,
      limit |-> limit,
      agent_id |-> None,
      session_id |-> IF session_id # None /\ sessionCap THEN session_id ELSE None,
      memory_type |-> IF memory_type # None /\ filtersCap THEN memory_type ELSE None,
      expert_domain |-> IF expert_domain # None /\ filtersCap THEN expert_domain ELSE None ]

\* parameters of the first store call of search_memories / get_all_memories;
\* agentCap, sessionCap: capabilities[...]; filtersCap: the store method has a
\* `filters` parameter
ReadParams(user_id, limit, agent_id, session_id, memory_type, expert_domain, agentCap, sessionCap, filtersCap) ==
    [ user_id |-> user_id,
      limit |-> limit,
      agent_id |-> IF agent_id # None /\ agentCap THEN agent_id ELSE None,
      session_id |-> IF session_id # None /\ sessionCap THEN session_id ELSE None,
      memory_type |-> IF memory_type # None /\ filtersCap THEN memory_type ELSE None,
      expert_domain |-> IF expert_domain # None /\ filtersCap THEN expert_domain ELSE None ]

\* parameters of the retry made after the first call raised: no limit is passed,
\* the store applies its own default (100)
SimplifiedParams(user_id) ==
    [ user_id |-> user_id, limit |-> 100, agent_id |-> None, session_id |-> None,
      memory_type |-> None, expert_domain |-> None ]

\* the shapes a store call can come back with
Shapes == {"dict", "dict_without_results", "list", "other"}
ReadOutcomes == Shapes \cup {"raise"}

\* a normalisation that hands on whatever the store returned
NormalizeFirstUnchecked(shape, found) == found

\* normalisation of the first call's return value
NormalizeFirst(shape, found) ==
    CASE shape = "dict" -> found
      [] shape = "dict_without_results" -> << >>
      [] shape = "list" -> found
      [] OTHER -> << >>

\* a retry whose return value is thrown away
NormalizeFallbackDiscarded(shape, found) == << >>

\* normalisation of the retry's return value
NormalizeFallback(shape, found) ==
    CASE shape = "dict" -> found
      [] shape = "list" -> found
      [] OTHER -> << >>

\* the body shared by search_memories and get_all_memories
\* o1, o2: outcome of the first store call and of the retry
GatewayRead(mem, params, o1, o2) ==
    LET call1 == [params |-> params, raised |-> (o1 = "raise")]
        call2 == [params |-> SimplifiedParams(params.user_id), raised |-> (o2 = "raise")]
    IN  IF o1 # "raise"
        THEN [results |-> NormalizeFirst(o1, Limited(Matches(mem, params), params.limit)),
              calls |-> <<call1>>, raised |-> FALSE]
        ELSE IF o2 # "raise"
             THEN [results |-> NormalizeFallback(o2, Limited(Matches(mem, call2.params),
                                                          call2.params.limit)),
                   calls |-> <<call1, call2>>, raised |-> FALSE]
             ELSE [results |-> << >>, calls |-> <<call1, call2>>, raised |-> FALSE]

search_memories(mem, caps, filt, user_id, limit, agent_id, session_id, memory_type, expert_domain, o1, o2) ==
    GatewayRead(mem,
                ReadParams(user_id, limit, agent_id, session_id, memory_type, expert_domain,
                           caps.search_agent, caps.search_session, filt.search),
                o1, o2)

get_all_memories(mem, caps, filt, user_id, limit, agent_id, session_id, memory_type, expert_domain, o1, o2) ==
    GatewayRead(mem,
                ReadParams(user_id, limit, agent_id, session_id, memory_type, expert_domain,
                           caps.get_all_agent, caps.get_all_session, filt.get_all),
                o1, o2)

(***************************************************************************)
(* models/data_models.py: ConversationCache (deque(maxlen=max_size))       *)
(***************************************************************************)
ChatMessage(role, content) == [role |-> role, content |-> content]

\* a buffer that refuses the new item once it is full
DequeAppendDropsNewest(q, item, max_size) ==
    IF Len(q) >= max_size THEN q ELSE Append(q, item)

\* deque.append on a deque of maxlen max_size
DequeAppend(q, item, max_size) ==
    IF max_size = 0 THEN q
    ELSE IF Len(q) >= max_size THEN Append(Tail(q), item)
    ELSE Append(q, item)

add_message(c, user_id, message) ==
    [c EXCEPT ![user_id] = DequeAppend(c[user_id], message, CONVERSATION_CACHE_SIZE)]

get_messages(c, user_id) == c[user_id]

\* a read that returns the first `limit` turns
get_recent_messages_oldest(c, user_id, limit) ==
    LET messages == get_messages(c, user_id)
    IN  IF limit <= 0 THEN messages
        ELSE IF Len(messages) <= limit THEN messages
        ELSE SubSeq(messages, 1, limit)

\* limit: an integer; the absent limit (None) takes the same branch as 0
get_recent_messages(c, user_id, limit) ==
    LET messages == get_messages(c, user_id)
    IN  IF limit <= 0 THEN messages
        ELSE IF Len(messages) <= limit THEN messages
        ELSE SubSeq(messages, Len(messages) - limit + 1, Len(messages))

\* a clear that empties every buffer
\* a clear that leaves the buffer as it is
clear_kept(c, user_id) == c

clear_all(c, user_id) == [u \in DOMAIN c |-> << >>]

clear(c, user_id) == [c EXCEPT ![user_id] = << >>]

(***************************************************************************)
(* core/context_engine.py: ContextOrchestrator.build_payload               *)
(***************************************************************************)
EmptyDict == [empty |-> TRUE, memory_type |-> None, expert_domain |-> None]

Fragment(role, layer, content) == [role |-> role, layer |-> layer, content |-> content]

\* agent_config.get("domain") / agent_profile.get("expert_domain"): no profile
\* of the table has either key
ProfileDomain(agent_id) == None

\* _compose_system_prompt: msg carries the scope of the memory-access notice
SystemPromptOf(agent_id, expert_domain, memory_metadata) ==
    Text("system_prompt", agent_id,
         IF ~memory_metadata.empty /\ memory_metadata.memory_type \in {"expert", "project"}
         THEN <<memory_metadata.memory_type>> ELSE << >>)

\* a cached entry is a dict when it is a record without the field "object";
\* NonDict stands for an entry of any other type
NonDict(x) == [object |-> x]
IsDict(message) == "object" \notin DOMAIN message

\* the loop of _trim_history: an entry that is not a dict is left out, a dict
\* without 'role' is copied with role "system"
RECURSIVE ValidateRoles(_)
ValidateRoles(trimmed) ==
    IF trimmed = << >> THEN << >>
    ELSE LET message == Head(trimmed)
         IN  (IF ~IsDict(message) THEN << >>
              ELSE IF "role" \in DOMAIN message THEN <<message>>
              ELSE IF "content" \in DOMAIN message
                   THEN <<[role |-> "system", content |-> message.content]>>
                   ELSE <<[role |-> "system"]>>)
             \o ValidateRoles(Tail(trimmed))

\* a trimming that keeps the oldest max_history entries
TrimHistoryOldest(cached_messages) ==
    ValidateRoles(
        IF MaxHistoryMessages <= 0 \/ Len(cached_messages) <= MaxHistoryMessages
        THEN cached_messages
        ELSE SubSeq(cached_messages, 1, MaxHistoryMessages))

\* _trim_history: the last max_history entries (all of them when max_history <= 0),
\* validated
TrimHistory(cached_messages) ==
    ValidateRoles(
        IF MaxHistoryMessages <= 0 \/ Len(cached_messages) <= MaxHistoryMessages
        THEN cached_messages
        ELSE SubSeq(cached_messages, Len(cached_messages) - MaxHistoryMessages + 1,
                    Len(cached_messages)))

\* the history loop of build_payload: an entry is appended when it is a dict
\* with 'role' and 'content', and ignored otherwise
RECURSIVE HistoryFragments(_)
HistoryFragments(trimmed) ==
    IF trimmed = << >> THEN << >>
    ELSE (IF IsDict(Head(trimmed)) /\ "role" \in DOMAIN Head(trimmed)
             /\ "content" \in DOMAIN Head(trimmed)
          THEN <<Fragment(Head(trimmed).role, "history", Head(trimmed).content)>>
          ELSE << >>)
         \o HistoryFragments(Tail(trimmed))

\* the argument list of one search_memories call
SearchCall(by, agent_id, session_id, memory_type, expert_domain, limit) ==
    [by |-> by, agent_id |-> agent_id, session_id |-> session_id,
     memory_type |-> memory_type, expert_domain |-> expert_domain, limit |-> limit]

\* the collaborators build_payload hands to get_collaborative_context
RECURSIVE NonProjectAgents(_)
NonProjectAgents(i) ==
    IF i > Len(AgentOrder) THEN << >>
    ELSE IF AgentOrder[i] # "project_brain"
         THEN <<AgentOrder[i]>> \o NonProjectAgents(i + 1)
         ELSE NonProjectAgents(i + 1)

\* profile["collaborators"]
ProfileCollaborators(agent_id) ==
    IF agent_id = "project_brain"
    THEN <<"product_lead", "algo_scientist", "solution_architect">> ELSE << >>

\* an aggregation that makes its broad search first
CollaborativeSearchesBroadFirst(agent_id, session_id, collaborators) ==
    << SearchCall("collab_broad", None, session_id, None, None, 2 * MEMORY_SEARCH_LIMIT),
       SearchCall("collab_user", None, session_id, "user", None, MEMORY_SEARCH_LIMIT),
       SearchCall("collab_primary", agent_id, session_id,
                  IF agent_id = "project_brain" THEN "project" ELSE "expert", None,
                  MEMORY_SEARCH_LIMIT) >>
    \o [i \in 1..Len(collaborators) |->
          SearchCall("collab_peer", collaborators[i], session_id, "expert", None,
                     MEMORY_SEARCH_LIMIT)]

\* the searches of MemoryManager.get_collaborative_context, in call order
CollaborativeSearches(agent_id, session_id, collaborators) ==
    << SearchCall("collab_user", None, session_id, "user", None, MEMORY_SEARCH_LIMIT),
       SearchCall("collab_primary", agent_id, session_id,
                  IF agent_id = "project_brain" THEN "project" ELSE "expert", None,
                  MEMORY_SEARCH_LIMIT) >>
    \o [i \in 1..Len(collaborators) |->
          SearchCall("collab_peer", collaborators[i], session_id, "expert", None,
                     MEMORY_SEARCH_LIMIT)]
    \o << SearchCall("collab_broad", None, session_id, None, None, 2 * MEMORY_SEARCH_LIMIT) >>

MinimalPayloadNoticeOnly(agent_id, session_id, user_message, searches) ==
    [ messages |-> << Fragment("system", "degraded", Text("degraded", agent_id, << >>)) >>,
      memory_used |-> FALSE,
      memories_count |-> 0,
      agent_id |-> agent_id,
      session_id |-> session_id,
      collaborators |-> << >>,
      memory_type |-> None,
      searches |-> searches,
      degraded |-> TRUE ]

MinimalPayloadClaimsMemory(agent_id, session_id, user_message, searches) ==
    [ messages |-> << Fragment("system", "degraded", Text("degraded", agent_id, << >>)),
                      Fragment("user", "current", user_message) >>,
      memory_used |-> TRUE,
      memories_count |-> 1,
      agent_id |-> agent_id,
      session_id |-> session_id,
      collaborators |-> ProfileCollaborators(agent_id),
      memory_type |-> None,
      searches |-> searches,
      degraded |-> TRUE ]

\* the payload of the except branch of build_payload
MinimalPayload(agent_id, session_id, user_message, searches) ==
    [ messages |-> << Fragment("system", "degraded", Text("degraded", agent_id, << >>)),
                      Fragment("user", "current", user_message) >>,
      memory_used |-> FALSE,
      memories_count |-> 0,
      agent_id |-> agent_id,
      session_id |-> session_id,
      collaborators |-> << >>,
      memory_type |-> None,
      searches |-> searches,
      degraded |-> TRUE ]

\* the store as one build_payload call sees it: its records, the gateway's
\* capabilities, and what every store call made during the build does (o1: the
\* first attempt of a search, o2: its retry)
StoreView(mem, caps, filt, o1, o2) ==
    [mem |-> mem, caps |-> caps, filt |-> filt, o1 |-> o1, o2 |-> o2]

\* one block of a memory text: its heading or line number and the records
\* printed under it
Section(name, records) == [name |-> name, records |-> records]

\* a record is printed in one of the blocks of a memory text
PrintedInText(rec, text) ==
    \E k \in 1..Len(text.msg) :
        \E j \in 1..Len(text.msg[k].records) : text.msg[k].records[j] = rec

\* str() of the records a search returned, as the user-memory formatter prints
\* it: the formatter numbers the values() of the dict search_memories returns,
\* so there is one line, "1." followed by the whole list of records
RenderRecords(results) == <<Section("1.", results)>>

\* _get_user_memory_context: search_memories returns a dict that always has the
\* key "results", so the one line "1. [...]" is there whether the search found
\* records, found none or failed
_get_user_memory_context(read) ==
    IF read.raised THEN EmptyText
    ELSE Text("user_memory_lines", None, RenderRecords(read.results))

\* one search_memories call of the build, made with the arguments of call
SearchResults(store, user_id, call) ==
    search_memories(store.mem, store.caps, store.filt, user_id, call.limit, call.agent_id,
                    call.session_id, call.memory_type, call.expert_domain,
                    store.o1, store.o2).results

\* _format_memory_results: no block for an empty result list
FormatMemoryResults(name, results) ==
    IF results = << >> THEN << >> ELSE <<Section(name, results)>>

\* the domain groups of get_collaborative_context, in the order of its table
DomainOrder == <<"product", "algorithm", "architecture", "general">>

CollaboratorDomain(collaborator) ==
    IF ExpertDomainOf(collaborator) # None THEN ExpertDomainOf(collaborator) ELSE "general"

\* the results of the collaborators of one domain, in collaborator order;
\* peers: the collaborator searches
RECURSIVE DomainResults(_, _, _, _, _)
DomainResults(store, user_id, peers, domain, i) ==
    IF i > Len(peers) THEN << >>
    ELSE (IF CollaboratorDomain(peers[i].agent_id) = domain
          THEN SearchResults(store, user_id, peers[i]) ELSE << >>)
         \o DomainResults(store, user_id, peers, domain, i + 1)

RECURSIVE ExpertSections(_, _, _, _)
ExpertSections(store, user_id, peers, d) ==
    IF d > Len(DomainOrder) THEN << >>
    ELSE FormatMemoryResults(DomainOrder[d],
                             DomainResults(store, user_id, peers, DomainOrder[d], 1))
         \o ExpertSections(store, user_id, peers, d + 1)

\* total_hits added by the expert blocks: the records of every block
RECURSIVE SectionHits(_)
SectionHits(sections) ==
    IF sections = << >> THEN 0
    ELSE Len(Head(sections).records) + SectionHits(Tail(sections))

\* the suggestions of the synthesis block: the first record of every distinct content
RECURSIVE DedupByContent(_, _)
DedupByContent(results, seen) ==
    IF results = << >> THEN << >>
    ELSE IF Head(results).text \in seen THEN DedupByContent(Tail(results), seen)
    ELSE <<Head(results)>> \o DedupByContent(Tail(results), seen \cup {Head(results).text})

\* MemoryManager.get_collaborative_context: the dict it returns and the searches
\* it made.  With no block at all the text is the "no memories" sentence
get_collaborative_context(store, user_id, agent_id, session_id, collaborators) ==
    LET calls == CollaborativeSearches(agent_id, session_id, collaborators)
        ByStep(by) == SelectSeq(calls, LAMBDA c : c.by = by)
        user_results == SearchResults(store, user_id, ByStep("collab_user")[1])
        primary_results == SearchResults(store, user_id, ByStep("collab_primary")[1])
        expert_sections == ExpertSections(store, user_id, ByStep("collab_peer"), 1)
        comprehensive_results == SearchResults(store, user_id, ByStep("collab_broad")[1])
        suggestions == DedupByContent(Take(comprehensive_results, MEMORY_SEARCH_LIMIT), {})
        memory_sections ==
            FormatMemoryResults("user", user_results)
            \o FormatMemoryResults(agent_id, primary_results)
            \o (IF expert_sections # << >>
                 THEN <<Section("expert_summary", << >>)>> \o expert_sections ELSE << >>)
            \o (IF suggestions # << >>
                 THEN <<Section("suggestions", suggestions)>> ELSE << >>)
        total_hits == Len(user_results) + Len(primary_results) + SectionHits(expert_sections)
    IN  [ formatted |-> Text("collaborative_context", agent_id,
                             IF memory_sections # << >> THEN memory_sections
                             ELSE <<Section("no_memories", << >>)>>),
          memory_used |-> total_hits > 0,
          memories_count |-> total_hits,
          searches |-> calls,
          raised |-> FALSE ]

\* ContextOrchestrator._get_collaborative_context: the formatted text
_get_collaborative_context(store, user_id, agent_id, session_id, collaborators) ==
    get_collaborative_context(store, user_id, agent_id, session_id, collaborators).formatted

\* the message list of build_payload: a layer is appended when its text is not empty
AssembleMessagesExternalTwice(system_prompt, memory_context, collaborative_context, extra_context, history, user_message) ==
    (IF Truthy(system_prompt)
     THEN <<Fragment("system", "instructions", system_prompt)>> ELSE << >>)
    \o (IF Truthy(memory_context)
        THEN <<Fragment("system", "memory", memory_context)>> ELSE << >>)
    \o (IF Truthy(collaborative_context)
        THEN <<Fragment("system", "collaboration", collaborative_context)>> ELSE << >>)
    \o (IF Truthy(extra_context)
        THEN <<Fragment("system", "external", extra_context)>> ELSE << >>)
    \o history
    \o (IF Truthy(extra_context)
        THEN <<Fragment("system", "external", extra_context)>> ELSE << >>)
    \o <<Fragment("user", "current", user_message)>>

AssembleMessagesHistoryFirst(system_prompt, memory_context, collaborative_context, extra_context, history, user_message) ==
    (IF Truthy(system_prompt)
     THEN <<Fragment("system", "instructions", system_prompt)>> ELSE << >>)
    \o history
    \o (IF Truthy(memory_context)
        THEN <<Fragment("system", "memory", memory_context)>> ELSE << >>)
    \o (IF Truthy(collaborative_context)
        THEN <<Fragment("system", "collaboration", collaborative_context)>> ELSE << >>)
    \o (IF Truthy(extra_context)
        THEN <<Fragment("system", "external", extra_context)>> ELSE << >>)
    \o <<Fragment("user", "current", user_message)>>

AssembleMessages(system_prompt, memory_context, collaborative_context, extra_context, history, user_message) ==
    (IF Truthy(system_prompt)
     THEN <<Fragment("system", "instructions", system_prompt)>> ELSE << >>)
    \o (IF Truthy(memory_context)
        THEN <<Fragment("system", "memory", memory_context)>> ELSE << >>)
    \o (IF Truthy(collaborative_context)
        THEN <<Fragment("system", "collaboration", collaborative_context)>> ELSE << >>)
    \o (IF Truthy(extra_context)
        THEN <<Fragment("system", "external", extra_context)>> ELSE << >>)
    \o history
    \o <<Fragment("user", "current", user_message)>>

\* build_payload.  store: the store during the call; memory_type: the scope
\* argument.  The searches it makes are listed in call order.
build_payload(store, user_id, agent_id, session_id, user_message, cached_messages, extra_context, memory_type, memory_metadata, expert_domain_arg) ==
    LET expert_domain == IF expert_domain_arg # None THEN expert_domain_arg
                         ELSE ProfileDomain(agent_id)
        userSearch == SearchCall("user", None, None, "user", None, MEMORY_SEARCH_LIMIT)
        expertSearch == SearchCall("expert", agent_id, None, "expert", expert_domain,
                                   MEMORY_SEARCH_LIMIT)
        projectSearch == SearchCall("project", "project_brain", session_id, "project", None,
                                    MEMORY_SEARCH_LIMIT)
        collaborators == IF agent_id = "project_brain" THEN NonProjectAgents(1)
                         ELSE Take(ProfileCollaborators(agent_id), 5)
        collabSearches == IF agent_id = "project_brain"
                          THEN CollaborativeSearches(agent_id, session_id, collaborators)
                          ELSE << >>
        userRead == search_memories(store.mem, store.caps, store.filt, user_id,
                                    MEMORY_SEARCH_LIMIT, None, None, "user", None,
                                    store.o1, store.o2)
        \* memory_context: the heading and the user memory lines
        user_memory_context == _get_user_memory_context(userRead)
        memory_context == IF Truthy(user_memory_context)
                          THEN Text("memory_context", agent_id, user_memory_context.msg)
                          ELSE EmptyText
        \* get_collaborative_context renders "no memories" as a non-empty text
        \* (a domain given for the coordinating role would filter its lines by
        \* keyword; no caller gives one)
        collaborative_context == IF agent_id = "project_brain"
                                 THEN _get_collaborative_context(store, user_id, agent_id,
                                                                 session_id, collaborators)
                                 ELSE EmptyText
    IN  IF memory_type = "expert" /\ expert_domain # None
        THEN \* _get_expert_memory_context passes search_memories a keyword it does
             \* not have (metadata=): TypeError before the store is reached
             MinimalPayload(agent_id, session_id, user_message, <<userSearch>>)
        ELSE IF memory_type = "project"
        THEN \* _get_project_memory_context slices the dict search_memories returns
             MinimalPayload(agent_id, session_id, user_message, <<userSearch, projectSearch>>)
        ELSE [ messages |->
                  AssembleMessages(SystemPromptOf(agent_id, expert_domain, memory_metadata),
                                   memory_context, collaborative_context, extra_context,
                                   HistoryFragments(TrimHistory(cached_messages)),
                                   user_message),
               memory_used |-> Truthy(memory_context),
               memories_count |-> IF Truthy(memory_context) THEN 2 ELSE 0,
               agent_id |-> agent_id,
               session_id |-> session_id,
               collaborators |-> collaborators,
               memory_type |-> memory_type,
               searches |-> <<userSearch>> \o collabSearches,
               degraded |-> FALSE ]

(***************************************************************************)
(* core/chat_engine.py: ChatEngine                                         *)
(***************************************************************************)
LlmOutcomes == {"ok", "empty", "raise"}

LlmErrorText == Text("llm_error_text", None, << >>)
GenerateFailedText == Text("generate_failed_text", None, << >>)

\* a _call_llm without its handler: the completion call's exception escapes
_call_llm_unguarded(messages, outcome) ==
    CASE outcome = "ok" -> [raised |-> FALSE,
                            text |-> Text("reply", messages[Len(messages)].content.agent, << >>)]
      [] outcome = "empty" -> [raised |-> FALSE, text |-> EmptyText]
      [] OTHER -> [raised |-> TRUE, text |-> EmptyText]

\* _call_llm: the reply, the empty reply, or the text built by its own handler
\* when the completion call raises; it never raises itself
_call_llm(messages, outcome) ==
    CASE outcome = "ok" -> [raised |-> FALSE,
                            text |-> Text("reply", messages[Len(messages)].content.agent, << >>)]
      [] outcome = "empty" -> [raised |-> FALSE, text |-> EmptyText]
      [] OTHER -> [raised |-> FALSE, text |-> LlmErrorText]

ChatResponse(content, user_id, agent_id, session_id, memory_used, memories_count, collaborators, error) ==
    [ content |-> content, user_id |-> user_id, agent_id |-> agent_id,
      session_id |-> session_id, memory_used |-> memory_used,
      memories_count |-> memories_count, collaborators |-> collaborators,
      error |-> error ]

\* the memory text written back by _finalize_interaction
MemoryContent(label, user_message, assistant_response) ==
    [label |-> label, q |-> user_message, a |-> assistant_response]

\* arguments of the store_memory call of _finalize_interaction
FinalizeWriteArgs(user_message, assistant_response, agent_id, memory_type, memory_metadata) ==
    IF memory_type = "expert" /\ ~memory_metadata.empty
    THEN [content |-> MemoryContent("expert_reply", user_message, assistant_response),
          agent_id |-> agent_id, memory_type |-> memory_type]
    ELSE IF memory_type = "project"
    THEN [content |-> MemoryContent("system_reply", user_message, assistant_response),
          agent_id |-> "project_brain", memory_type |-> memory_type]
    ELSE [content |-> MemoryContent("system_reply", user_message, assistant_response),
          agent_id |-> agent_id, memory_type |-> "user"]

\* _finalize_interaction: the two cache appends, then the write-back
\* a finalisation that writes back only what it also caches
_finalize_interaction_persisted_only(c, mem, caps, user_message, assistant_response, user_id, agent_id, session_id, persist_history, store_memory_flag, memory_type, memory_metadata, o1, o2) ==
    LET c2 == IF persist_history
              THEN add_message(add_message(c, user_id, ChatMessage("user", user_message)),
                               user_id, ChatMessage("assistant", assistant_response))
              ELSE c
        args == FinalizeWriteArgs(user_message, assistant_response, agent_id, memory_type,
                                  memory_metadata)
        w == store_memory(mem, caps, args.content, user_id, args.agent_id, session_id,
                          args.memory_type, o1, o2)
    IN  IF store_memory_flag /\ persist_history
        THEN [cache |-> c2, mem |-> w.mem,
              writes |-> <<[op |-> "store_memory", agent_id |-> args.agent_id,
                            memory_type |-> args.memory_type, content |-> args.content,
                            adds |-> w.adds, ok |-> w.ok]>>]
        ELSE [cache |-> c2, mem |-> mem, writes |-> << >>]

_finalize_interaction(c, mem, caps, user_message, assistant_response, user_id, agent_id, session_id, persist_history, store_memory_flag, memory_type, memory_metadata, o1, o2) ==
    LET c2 == IF persist_history
              THEN add_message(add_message(c, user_id, ChatMessage("user", user_message)),
                               user_id, ChatMessage("assistant", assistant_response))
              ELSE c
        args == FinalizeWriteArgs(user_message, assistant_response, agent_id, memory_type,
                                  memory_metadata)
        w == store_memory(mem, caps, args.content, user_id, args.agent_id, session_id,
                          args.memory_type, o1, o2)
    IN  IF store_memory_flag
        THEN [cache |-> c2, mem |-> w.mem,
              writes |-> <<[op |-> "store_memory", agent_id |-> args.agent_id,
                            memory_type |-> args.memory_type, content |-> args.content,
                            adds |-> w.adds, ok |-> w.ok]>>]
        ELSE [cache |-> c2, mem |-> mem, writes |-> << >>]

\* generate_response after build_payload: _call_llm, _finalize_interaction and
\* the ChatResponse.  kw: the keyword arguments of the call; payload: what
\* build_payload returned
generate_response(c, mem, caps, kw, payload, llm, o1, o2) ==
    LET reply == _call_llm(payload.messages, llm)
        fin == _finalize_interaction(c, mem, caps, kw.message, reply.text, kw.user_id,
                                     kw.agent_id, kw.session_id, kw.persist_history,
                                     kw.store_memory, kw.memory_type, kw.memory_metadata,
                                     o1, o2)
    IN  IF reply.raised
        THEN [raised |-> FALSE, cache |-> c, mem |-> mem, writes |-> << >>,
              response |-> ChatResponse(GenerateFailedText, kw.user_id, kw.agent_id,
                                        kw.session_id, FALSE, 0, << >>, "error")]
        ELSE [raised |-> FALSE, cache |-> fin.cache, mem |-> fin.mem, writes |-> fin.writes,
              response |-> ChatResponse(reply.text, kw.user_id, kw.agent_id, kw.session_id,
                                        payload.memory_used, payload.memories_count,
                                        payload.collaborators, None)]

(***************************************************************************)
(* core/agent_controller.py: MultiAgentController                          *)
(***************************************************************************)
\* the prompt builders: a prompt is told apart by its template, the role it is
\* built for and the raw message it embeds
_build_project_brain_prompt(user_message) ==
    Text("project_brain_prompt", PROJECT_BRAIN_ID, user_message)

_build_specialist_prompt(agent_id, user_message, project_summary) ==
    Text("specialist_prompt", agent_id, user_message)

\* a synthesis step that hands the model the raw user message
_build_final_prompt_raw(user_message, project_summary, specialist_outputs) ==
    Text("raw_message", None, user_message)

_build_final_prompt(user_message, project_summary, specialist_outputs) ==
    Text("final_prompt", PROJECT_BRAIN_ID, user_message)

_get_expert_memory_context == Text("expert_memory_placeholder", None, << >>)
_get_project_memory_context == Text("project_memory_placeholder", None, << >>)

\* the test that opens process_user_message
IsDirect(target_agent) ==
    /\ target_agent # None
    /\ target_agent # PROJECT_BRAIN_ID
    /\ target_agent \in AGENT_PROFILES

\* memory_metadata built by _call_agent
MemoryMetadata(memory_type, agent_id) ==
    IF memory_type # None
    THEN [empty |-> FALSE, memory_type |-> memory_type,
          expert_domain |-> IF memory_type = "expert" THEN agent_id ELSE None]
    ELSE EmptyDict

\* the keyword arguments _call_agent gives generate_response: memory_metadata
\* carries the scope, the memory_type keyword is left at its default
GenerateKwargs(agent_id, prompt, user_id, session_id, persist_history, extra_context, memory_type) ==
    [ message |-> prompt, user_id |-> user_id, agent_id |-> agent_id,
      session_id |-> session_id, persist_history |-> persist_history,
      store_memory |-> TRUE, extra_context |-> extra_context,
      memory_type |-> None,
      memory_metadata |-> MemoryMetadata(memory_type, agent_id) ]

AgentErrorText(agent_id) == Text("agent_error_placeholder", agent_id, << >>)
AgentExceptionText(agent_id) == Text("agent_exception_text", agent_id, << >>)

\* a _call_agent that lets a failed invocation escape to its caller
_call_agent_unguarded(agent_id, user_id, session_id, gen) ==
    [raised |-> (gen.raised \/ gen.response.content = LlmErrorText),
     response |-> gen.response]

\* _call_agent around generate_response: gen is what generate_response produced
_call_agent(agent_id, user_id, session_id, gen) ==
    IF gen.raised
    THEN [raised |-> FALSE,
          response |-> ChatResponse(AgentExceptionText(agent_id), user_id, agent_id,
                                    session_id, FALSE, 0, << >>, "error")]
    ELSE IF gen.response.error # None /\ ~Truthy(gen.response.content)
         THEN [raised |-> FALSE,
               response |-> [gen.response EXCEPT !.content = AgentErrorText(agent_id)]]
         ELSE [raised |-> FALSE, response |-> gen.response]

SpecialistResult(agent_id, content) == [agent_id |-> agent_id, content |-> content]

MultiAgentResult(project_summary, selected_agents, specialist_outputs, final_response) ==
    [ project_summary |-> project_summary, selected_agents |-> selected_agents,
      specialist_outputs |-> specialist_outputs, final_response |-> final_response ]

\* a direct run skips the summary: its project summary stays empty
DirectResultWithSummary(target_agent, response) ==
    MultiAgentResult(response.content, <<target_agent>>,
                     <<SpecialistResult(target_agent, response.content)>>, response)

\* the MultiAgentResult returned by the direct branch
DirectResult(target_agent, response) ==
    MultiAgentResult(EmptyText, <<target_agent>>,
                     <<SpecialistResult(target_agent, response.content)>>, response)

\* a controller that asks for every invocation to be cached
PersistHistoryAlways(phase) == TRUE

\* the persist_history argument of _call_agent: set by the direct call and by
\* the final synthesis, cleared by the summary and by the specialist calls
PersistHistory(phase) == phase \in {"direct", "final"}


\* the arguments of the _call_agent call made in each phase of a run r
CallArgs(phase, r) ==
    CASE phase = "direct" ->
           [agent_id |-> r.target_agent,
            prompt |-> _build_specialist_prompt(r.target_agent, r.user_message, EmptyText),
            persist_history |-> PersistHistory(phase),
            extra_context |-> _get_expert_memory_context,
            memory_type |-> "expert"]
      [] phase = "summary" ->
           [agent_id |-> PROJECT_BRAIN_ID,
            prompt |-> _build_project_brain_prompt(r.user_message),
            persist_history |-> PersistHistory(phase),
            extra_context |-> _get_project_memory_context,
            memory_type |-> "project"]
      [] phase = "specialists" ->
           [agent_id |-> r.specialist_ids[r.idx],
            prompt |-> _build_specialist_prompt(r.specialist_ids[r.idx], r.user_message,
                                                r.project_summary),
            persist_history |-> PersistHistory(phase),
            extra_context |-> Text("summary_and_expert_memory", None, <<r.project_summary.kind>>),
            memory_type |-> "expert"]
      [] OTHER ->
           [agent_id |-> PROJECT_BRAIN_ID,
            prompt |-> _build_final_prompt(r.user_message, r.project_summary,
                                           r.specialist_outputs),
            persist_history |-> PersistHistory(phase),
            extra_context |-> Text("summary_and_project_memory", None, <<r.project_summary.kind>>),
            memory_type |-> "project"]

\* a loop that leaves after its first specialist
AfterSpecialistStopsEarly(idx, specialist_ids) == "final"

\* the specialist loop: where the run goes once the specialist at idx is collected
AfterSpecialist(idx, specialist_ids) ==
    IF idx < Len(specialist_ids) THEN "specialists" ELSE "final"

\* a loop that collects only the outputs of invocations that went through
CollectOutputDropsFailed(specialist_outputs, agent_id, response) ==
    IF response.content = LlmErrorText \/ ~Truthy(response.content)
    THEN specialist_outputs
    ELSE Append(specialist_outputs, SpecialistResult(agent_id, response.content))

\* specialist_outputs.append(SpecialistResult(agent_id, specialist_resp.content))
CollectOutput(specialist_outputs, agent_id, response) ==
    Append(specialist_outputs, SpecialistResult(agent_id, response.content))

(***************************************************************************)
(* State                                                                   *)
(***************************************************************************)
VARIABLES
    capabilities,   \* MemoryManager.capabilities, probed at construction
    store_filters,  \* whether the store's search / get_all take `filters`
    memory,         \* the records held by the external store
    cache,          \* ConversationCache._cache: user id -> turns
    pc,             \* position of process_user_message
    run,            \* its locals
    pending,        \* the role invocation whose model call is in flight
    result,         \* the MultiAgentResult returned by the last run
    llm_log,        \* model invocations of the run: begin and end events
    build_log,      \* build_payload calls of the run
    selector_log,   \* select_specialists calls of the run
    write_log,      \* gateway writes of the run
    last_read,      \* the last gateway read made by a caller and its result
    faults,         \* failures injected so far
    runs,           \* runs started so far
    build,          \* one build_payload call: its arguments and the payload returned
    selection,      \* one select_specialists call: the message and the list returned
    appended,       \* the turns handed to add_message so far, per user
    cache_op,       \* the last ConversationCache call made directly: arguments and result
    threads         \* position of each concurrent _finalize_interaction

vars == <<capabilities, store_filters, memory, cache, pc, run, pending, result,
          llm_log, build_log, selector_log, write_log, last_read, faults, runs,
          build, selection, appended, cache_op, threads>>

\* the variables of the component specifications, which a run of
\* process_user_message leaves alone
component_vars == <<build, selection, appended, cache_op, threads>>

\* the variables of process_user_message other than the store and the cache
pipeline_vars == <<pc, run, pending, result, llm_log, build_log, selector_log, write_log,
                   last_read, faults, runs>>

(***************************************************************************)
(* Bounds and input sets                                                   *)
(***************************************************************************)
\* orchestration runs made one after the other on the same controller
MaxRuns == 1
\* failures the environment injects: a raising or empty model call, a raising add
MaxFaults == 1

Users == {"u1"}
Sessions == {"s1"}
Specialists == {a \in AGENT_PROFILES : AgentType(a) = "specialist"}

\* no keyword; one specialist; three specialists, the architect scoring highest
MsgFallback == <<"ni", "hao">>
MsgOne == <<"suan", "fa">>
MsgThree == <<"xii", "tong", "jiaa", "gou", "A", "I", "yong", "hu">>
Messages == {MsgFallback, MsgOne, MsgThree}

\* no target, the coordinating role, two specialists, a role not in the table
Targets == {None, "project_brain", "product_lead", "algo_scientist", "qa_tester"}

AllCapabilities ==
    [search_agent |-> TRUE, search_session |-> TRUE, add_agent |-> TRUE,
     add_session |-> TRUE, get_all_agent |-> TRUE, get_all_session |-> TRUE]
NoCapabilities ==
    [search_agent |-> FALSE, search_session |-> FALSE, add_agent |-> FALSE,
     add_session |-> FALSE, get_all_agent |-> FALSE, get_all_session |-> FALSE]
NoReadRole == [AllCapabilities EXCEPT !.search_agent = FALSE, !.get_all_agent = FALSE]
WithFilters == [search |-> TRUE, get_all |-> TRUE]
NoFilters == [search |-> FALSE, get_all |-> FALSE]

\* the stores a gateway is built on: every optional parameter with and without
\* metadata filters, no role-scoping on reads, no optional parameter at all
StoreChoices ==
    { [capabilities |-> AllCapabilities, filters |-> WithFilters],
      [capabilities |-> AllCapabilities, filters |-> NoFilters],
      [capabilities |-> NoReadRole, filters |-> NoFilters],
      [capabilities |-> NoCapabilities, filters |-> NoFilters] }

NoCall == [phase |-> None]
NoResult == [status |-> None]
NoRead == [op |-> None]
NoRun == [user_message |-> << >>, user_id |-> None, session_id |-> None,
          target_agent |-> None, project_summary |-> EmptyText,
          specialist_ids |-> << >>, specialist_outputs |-> << >>, idx |-> 0]

Cost(outcome) == IF outcome \in {"ok", "dict"} THEN 0 ELSE 1

\* no component call under way
NoBuild == [called |-> FALSE]
NoSelection == [called |-> FALSE]
NoCacheOp == [called |-> FALSE]

ComponentsIdle ==
    /\ build = NoBuild
    /\ selection = NoSelection
    /\ appended = << >>
    /\ cache_op = NoCacheOp
    /\ threads = << >>

Init ==
    /\ \E st \in StoreChoices : /\ capabilities = st.capabilities
                                /\ store_filters = st.filters
    /\ memory = << >>
    /\ cache = [u \in Users |-> << >>]
    /\ pc = "idle"
    /\ run = NoRun
    /\ pending = NoCall
    /\ result = NoResult
    /\ llm_log = << >>
    /\ build_log = << >>
    /\ selector_log = << >>
    /\ write_log = << >>
    /\ last_read = NoRead
    /\ faults = 0
    /\ runs = 0
    /\ ComponentsIdle

(***************************************************************************)
(* process_user_message                                                    *)
(***************************************************************************)
\* entry: the mode is chosen from target_agent, which the full pipeline never
\* reads again
StartRun(user_message, user_id, session_id, target_agent) ==
    /\ UNCHANGED component_vars
    /\ pc \in {"idle", "done"}
    /\ runs' = runs + 1
    /\ run' = [NoRun EXCEPT !.user_message = user_message, !.user_id = user_id,
                            !.session_id = session_id,
                            !.target_agent = IF IsDirect(target_agent)
                                             THEN target_agent ELSE None]
    /\ pc' = IF IsDirect(target_agent) THEN "direct" ELSE "summary"
    /\ pending' = NoCall
    /\ result' = NoResult
    /\ llm_log' = << >>
    /\ build_log' = << >>
    /\ selector_log' = << >>
    /\ write_log' = << >>
    /\ last_read' = NoRead
    /\ UNCHANGED <<capabilities, store_filters, memory, cache, faults>>

\* a call of process_user_message, while the behaviour has runs left
ProcessUserMessage(user_message, user_id, session_id, target_agent) ==
    /\ runs < MaxRuns
    /\ StartRun(user_message, user_id, session_id, target_agent)

\* _call_agent up to the model call: generate_response reads the cache and
\* builds the payload; the completion request is then in flight
BeginAgentCall ==
    /\ UNCHANGED component_vars
    /\ pc \in {"direct", "summary", "specialists", "final"}
    /\ pending = NoCall
    /\ LET args == CallArgs(pc, run)
           kw == GenerateKwargs(args.agent_id, args.prompt, run.user_id, run.session_id,
                                args.persist_history, args.extra_context, args.memory_type)
           cached == get_recent_messages(cache, kw.user_id, MaxHistoryMessages)
           payload == build_payload(StoreView(memory, capabilities, store_filters,
                                              "dict", "dict"),
                                    kw.user_id, kw.agent_id, kw.session_id, kw.message,
                                    cached, kw.extra_context, kw.memory_type,
                                    kw.memory_metadata, None)
       IN  /\ pending' = [phase |-> pc, args |-> args, kw |-> kw, payload |-> payload]
           /\ build_log' = Append(build_log,
                                  [phase |-> pc, agent_id |-> kw.agent_id,
                                   controller_scope |-> args.memory_type,
                                   memory_type |-> kw.memory_type,
                                   degraded |-> payload.degraded])
           /\ llm_log' = Append(llm_log, [event |-> "begin", phase |-> pc,
                                          agent_id |-> kw.agent_id])
    /\ UNCHANGED <<capabilities, store_filters, memory, cache, pc, run, result,
                   selector_log, write_log, last_read, faults, runs>>

\* the model call returns (or raises); the interaction is finalized, _call_agent
\* returns and process_user_message moves on
EndAgentCall(llm, o1, o2) ==
    /\ UNCHANGED component_vars
    /\ pending # NoCall
    /\ faults + Cost(llm) + Cost(o1) + (IF o1 = "raise" THEN Cost(o2) ELSE 0) <= MaxFaults
    /\ o1 = "ok" => o2 = "ok"
    /\ LET gen == generate_response(cache, memory, capabilities, pending.kw,
                                    pending.payload, llm, o1, o2)
           called == _call_agent(pending.kw.agent_id, pending.kw.user_id,
                                 pending.kw.session_id, gen)
           response == called.response
       IN  /\ faults' = faults + Cost(llm) + Cost(o1) + (IF o1 = "raise" THEN Cost(o2) ELSE 0)
           /\ cache' = gen.cache
           /\ memory' = gen.mem
           /\ write_log' = write_log \o gen.writes
           /\ llm_log' = Append(llm_log, [event |-> "end", phase |-> pending.phase,
                                          agent_id |-> pending.kw.agent_id,
                                          outcome |-> llm, content |-> response.content,
                                          error |-> response.error])
           /\ pending' = NoCall
           /\ IF called.raised
              THEN /\ pc' = "raised"
                   /\ UNCHANGED <<run, result>>
              ELSE CASE pending.phase = "direct" ->
                          /\ result' = DirectResult(run.target_agent, response)
                          /\ pc' = "done"
                          /\ UNCHANGED run
                     [] pending.phase = "summary" ->
                          /\ run' = [run EXCEPT !.project_summary = response.content]
                          /\ pc' = "select"
                          /\ UNCHANGED result
                     [] pending.phase = "specialists" ->
                          /\ run' = [run EXCEPT
                                       !.specialist_outputs =
                                           CollectOutput(run.specialist_outputs,
                                                         pending.kw.agent_id, response),
                                       !.idx = run.idx + 1]
                          /\ pc' = AfterSpecialist(run.idx, run.specialist_ids)
                          /\ UNCHANGED result
                     [] OTHER ->
                          /\ result' = MultiAgentResult(run.project_summary,
                                                        run.specialist_ids,
                                                        run.specialist_outputs, response)
                          /\ pc' = "done"
                          /\ UNCHANGED run
    /\ UNCHANGED <<capabilities, store_filters, build_log, selector_log, last_read, runs>>

\* specialist_ids = self.selector.select_specialists(user_message)
SelectSpecialists ==
    /\ UNCHANGED component_vars
    /\ pc = "select"
    /\ LET ids == select_specialists(run.user_message)
       IN  /\ run' = [run EXCEPT !.specialist_ids = ids, !.idx = 1]
           /\ selector_log' = Append(selector_log,
                                     [message |-> run.user_message, returned |-> ids,
                                      after |-> Len(llm_log)])
           /\ pc' = IF ids = << >> THEN "final" ELSE "specialists"
    /\ UNCHANGED <<capabilities, store_filters, memory, cache, pending, result, llm_log,
                   build_log, write_log, last_read, faults, runs>>

(***************************************************************************)
(* Gateway reads made by a caller between runs, against a healthy store.   *)
(* A read leaves the store as it is, so one read after a run shows what    *)
(* any sequence of reads would.                                            *)
(***************************************************************************)
ReadAgents == {"product_lead", "algo_scientist"}
ReadScopes == {"expert"}

SearchMemories(user_id, agent_id, memory_type) ==
    /\ UNCHANGED component_vars
    /\ pc \in {"idle", "done"}
    /\ last_read = NoRead
    /\ LET r == search_memories(memory, capabilities, store_filters, user_id,
                                MEMORY_SEARCH_LIMIT, agent_id, None, memory_type,
                                None, "dict", "dict")
       IN  last_read' = [op |-> "search_memories", user_id |-> user_id,
                         agent_id |-> agent_id, memory_type |-> memory_type,
                         results |-> r.results, raised |-> r.raised]
    /\ UNCHANGED <<capabilities, store_filters, memory, cache, pc, run, pending, result,
                   llm_log, build_log, selector_log, write_log, faults, runs>>

GetAllMemories(user_id, agent_id, memory_type) ==
    /\ UNCHANGED component_vars
    /\ pc \in {"idle", "done"}
    /\ last_read = NoRead
    /\ LET r == get_all_memories(memory, capabilities, store_filters, user_id, 100,
                                 agent_id, None, memory_type, None, "dict", "dict")
       IN  last_read' = [op |-> "get_all_memories", user_id |-> user_id,
                         agent_id |-> agent_id, memory_type |-> memory_type,
                         results |-> r.results, raised |-> r.raised]
    /\ UNCHANGED <<capabilities, store_filters, memory, cache, pc, run, pending, result,
                   llm_log, build_log, selector_log, write_log, faults, runs>>

Next ==
    \/ \E m \in Messages, u \in Users, s \in Sessions, t \in Targets :
           ProcessUserMessage(m, u, s, t)
    \/ BeginAgentCall
    \/ \E llm \in LlmOutcomes, o1 \in {"ok", "raise"}, o2 \in {"ok", "raise"} :
           EndAgentCall(llm, o1, o2)
    \/ SelectSpecialists
    \/ \E u \in Users, a \in ReadAgents, mt \in ReadScopes : SearchMemories(u, a, mt)
    \/ \E u \in Users, a \in ReadAgents, mt \in ReadScopes : GetAllMemories(u, a, mt)

Spec == Init /\ [][Next]_vars

(***************************************************************************)
(* Properties of an orchestration run                                      *)
(***************************************************************************)
\* the run in progress or just returned, by mode
FullRun == pc # "idle" /\ run.target_agent = None
DirectRun == pc # "idle" /\ run.target_agent # None

\* the role and phase of the j-th model invocation of a full run that selected ids
ExpectedAgent(j, ids) ==
    IF j = 1 \/ j = Len(ids) + 2 THEN PROJECT_BRAIN_ID ELSE ids[j - 1]
ExpectedPhase(j, ids) ==
    IF j = 1 THEN "summary" ELSE IF j = Len(ids) + 2 THEN "final" ELSE "specialists"

\* C1: in a full run the model invocations happen one at a time (every begin is
\* followed by its own end before the next begin), in the order coordinating
\* summary, each selected specialist in selection order, coordinating synthesis;
\* a returned run that selected k specialists has made exactly 2 + k of them,
\* so the synthesis began only after the last specialist's invocation ended
C1_SequentialInvocations ==
    FullRun =>
        /\ \A i \in 1..Len(llm_log) :
              LET j == (i + 1) \div 2
              IN  /\ j <= Len(run.specialist_ids) + 2
                  /\ llm_log[i].event = (IF i % 2 = 1 THEN "begin" ELSE "end")
                  /\ llm_log[i].agent_id = ExpectedAgent(j, run.specialist_ids)
                  /\ llm_log[i].phase = ExpectedPhase(j, run.specialist_ids)
        /\ pc = "done" => Len(llm_log) = 2 * (2 + Len(run.specialist_ids))

\* a full run over three selected specialists has returned after five invocations
C1_Witness ==
    /\ pc = "done"
    /\ FullRun
    /\ Len(run.specialist_ids) = 3
    /\ Len(llm_log) = 10
    /\ llm_log[9] = [event |-> "begin", phase |-> "final", agent_id |-> PROJECT_BRAIN_ID]

\* C2: a returned full run's selected_agents is what the selector returns for the
\* raw message; the selector was called once, on the raw message, after the
\* first coordinating invocation had ended; specialist_outputs holds one entry
\* per selected role, same ids, same order, whatever failed
C2_SelectedAgentsAndOutputs ==
    /\ FullRun => Len(selector_log) <= 1
    /\ (FullRun /\ pc = "done") =>
          /\ result.selected_agents = select_specialists(run.user_message)
          /\ Len(selector_log) = 1
          /\ selector_log[1].message = run.user_message
          /\ selector_log[1].returned = result.selected_agents
          /\ selector_log[1].after = 2
          /\ Len(result.specialist_outputs) = Len(result.selected_agents)
          /\ \A i \in 1..Len(result.selected_agents) :
                result.specialist_outputs[i].agent_id = result.selected_agents[i]

\* a full run returned although the model call of one of its specialists raised
C2_Witness ==
    /\ pc = "done"
    /\ FullRun
    /\ Len(result.selected_agents) >= 2
    /\ \E i \in 1..Len(result.specialist_outputs) :
          result.specialist_outputs[i].content = LlmErrorText

\* C3: a run given a configured target other than the coordinating role never
\* calls the selector, makes one model invocation, for the target, and returns
\* selected_agents = [target], an empty project summary and one SpecialistResult
\* of the target whose content is final_response's content
C3_DirectDelegate ==
    DirectRun =>
        /\ run.target_agent \in AGENT_PROFILES \ {PROJECT_BRAIN_ID}
        /\ selector_log = << >>
        /\ \A i \in 1..Len(llm_log) : llm_log[i].agent_id = run.target_agent
        /\ Len(llm_log) <= 2
        /\ pc = "done" =>
              /\ Len(llm_log) = 2
              /\ result.selected_agents = <<run.target_agent>>
              /\ result.project_summary = EmptyText
              /\ Len(result.specialist_outputs) = 1
              /\ result.specialist_outputs[1].agent_id = run.target_agent
              /\ result.specialist_outputs[1].content = result.final_response.content

\* a direct run for algo_scientist has returned a non-empty reply
C3_Witness ==
    /\ pc = "done"
    /\ run.target_agent = "algo_scientist"
    /\ result.selected_agents = <<"algo_scientist">>
    /\ Truthy(result.final_response.content)

\* C4: whenever the model call of a role invocation raised, the response of that
\* invocation has a content that states the failure and a non-empty error field
C4_ModelFailureReported ==
    \A i \in 1..Len(llm_log) :
        (llm_log[i].event = "end" /\ llm_log[i].outcome = "raise") =>
            /\ llm_log[i].content \in {LlmErrorText, GenerateFailedText}
                  \cup {AgentErrorText(a) : a \in AGENT_PROFILES}
                  \cup {AgentExceptionText(a) : a \in AGENT_PROFILES}
            /\ llm_log[i].error # None

WrittenFor(rec) ==
    IF rec.metadata.agent_id \in Specialists THEN rec.metadata.agent_id ELSE None

\* the store accepts a role id on the read that was made
ReadIsRoleScoped ==
    IF last_read.op = "search_memories" THEN capabilities.search_agent
    ELSE capabilities.get_all_agent

\* C6 as stated: a role-scoped read (search_memories or get_all_memories with a
\* role id and scope expert) made for a specialist never returns what was
\* written back for another specialist of the same user
C6_ScopeIsolation ==
    last_read # NoRead =>
        \A i \in 1..Len(last_read.results) :
            WrittenFor(last_read.results[i]) \in {None, last_read.agent_id}

\* C6 amended: on a store that accepts a role id on the read, a role-scoped
\* read made for a specialist never returns what was written back for another
\* specialist of the same user
C6_ScopeIsolationRoleScopedStore ==
    (last_read # NoRead /\ ReadIsRoleScoped) =>
        \A i \in 1..Len(last_read.results) :
            WrittenFor(last_read.results[i]) \in {None, last_read.agent_id}

\* product_lead's write-back is in the store and a role-scoped read for
\* algo_scientist returned records, on a store that accepts the role id
C6_Witness ==
    /\ last_read # NoRead
    /\ ReadIsRoleScoped
    /\ last_read.agent_id = "algo_scientist"
    /\ Len(last_read.results) > 0
    /\ \E i \in 1..Len(memory) : WrittenFor(memory[i]) = "product_lead"

\* C7: after the write-back of a finalized invocation for specialist R went
\* through, the search made next for role R with scope expert returns the
\* content that was written
C7_RoundTrip ==
    (/\ last_read # NoRead
     /\ last_read.op = "search_memories"
     /\ write_log # << >>
     /\ write_log[Len(write_log)].agent_id = last_read.agent_id
     /\ ~write_log[Len(write_log)].adds[1].raised) =>
        \E i \in 1..Len(last_read.results) :
            last_read.results[i].text = <<write_log[Len(write_log)].content>>

\* the scope and domain the role id of a record stands for
ScopeOf(agent_id) ==
    IF agent_id = PROJECT_BRAIN_ID THEN "project"
    ELSE IF agent_id \in Specialists THEN "expert"
    ELSE "user"
DomainOf(agent_id) ==
    IF agent_id \in Specialists THEN ExpertDomainOf(agent_id) ELSE None

\* C8: every stored record carries the scope and the domain of the role that
\* produced it: project for the coordinating role, expert and the role's domain
\* for a specialist, user otherwise; only expert records carry a domain
C8_ScopeAndDomainTags ==
    \A i \in 1..Len(memory) :
        /\ memory[i].metadata.memory_type = ScopeOf(memory[i].metadata.agent_id)
        /\ memory[i].metadata.expert_domain = DomainOf(memory[i].metadata.agent_id)
        /\ memory[i].metadata.expert_domain # None =>
              memory[i].metadata.memory_type = "expert"

\* C9: build_payload is called with the scope the controller chose: project for
\* both coordinating invocations of a full run, expert for every specialist
\* invocation, in a full run and in a direct one
C9_PayloadScope ==
    \A i \in 1..Len(build_log) :
        /\ build_log[i].memory_type = build_log[i].controller_scope
        /\ build_log[i].phase \in {"summary", "final"} =>
              build_log[i].memory_type = "project"
        /\ build_log[i].phase \in {"specialists", "direct"} =>
              build_log[i].memory_type = "expert"

\* C10: every gateway write first stores a copy that carries no role id; when a
\* role id is given and the store's add accepts one, a copy carrying the role id
\* is stored after it
C10_UserScopedCopyFirst ==
    \A i \in 1..Len(write_log) :
        LET w == write_log[i]
        IN  /\ w.adds[1].params.agent_id = None
            /\ (w.agent_id # None /\ capabilities.add_agent) =>
                  \E j \in 2..Len(w.adds) : w.adds[j].params.agent_id = w.agent_id

\* the cache after one finalized interaction: the user turn, then the
\* assistant turn
TwoTurnsAppended(c, user_id, user_content, assistant_content) ==
    add_message(add_message(c, user_id, ChatMessage("user", user_content)),
                user_id, ChatMessage("assistant", assistant_content))

\* C15: in a full run the cache changes only in the step in which the final
\* synthesis invocation ends, after its model call has returned; that step
\* appends one user turn and then one assistant turn (the reply returned); the
\* summary and specialist invocations leave the cache as it was
C15_OnlyFinalSynthesisAppends ==
    [][ FullRun =>
          /\ (pending = NoCall \/ pending' # NoCall) => cache' = cache
          /\ (pending # NoCall /\ pending' = NoCall) =>
                IF pending.phase = "final"
                THEN /\ llm_log'[Len(llm_log')].event = "end"
                     /\ llm_log'[Len(llm_log')].phase = "final"
                     /\ cache' = TwoTurnsAppended(cache, run.user_id, pending.kw.message,
                                                  llm_log'[Len(llm_log')].content)
                     /\ Len(cache'[run.user_id]) = Len(cache[run.user_id]) + 2
                ELSE cache' = cache ]_vars

\* a full run over three specialists has returned: the cache holds the two
\* turns of the final synthesis and nothing of the four invocations before it
C15_Witness ==
    /\ pc = "done"
    /\ FullRun
    /\ Len(run.specialist_ids) = 3
    /\ Len(llm_log) = 10
    /\ Len(cache[run.user_id]) = 2
    /\ cache[run.user_id][1].role = "user"
    /\ cache[run.user_id][2].role = "assistant"
    /\ cache[run.user_id][2].content = llm_log[10].content

(***************************************************************************)
(* build_payload called on its own                                         *)
(***************************************************************************)
\* longest cached history handed to build_payload (one more than max_history,
\* so the trimming case happens)
MaxCached == 9

\* a cached history of n turns, user and assistant alternating
HistoryOf(n) ==
    [i \in 1..n |-> ChatMessage(IF i % 2 = 1 THEN "user" ELSE "assistant", MsgFallback)]

\* turn i of a cached history whose turns differ in content
NumberedTurn(i) ==
    ChatMessage(IF i % 2 = 1 THEN "user" ELSE "assistant",
                Text("turn", None, [k \in 1..i |-> "wen"]))

\* cached histories with entries that lack a field or are not dicts
NumMixed == 4
MixedHistory(j) ==
    CASE j = 1 -> [i \in 1..MaxCached |-> NumberedTurn(i)]
      [] j = 2 -> <<NumberedTurn(1), [content |-> Text("turn", None, MsgOne)],
                    NumberedTurn(3)>>
      [] j = 3 -> <<NumberedTurn(1), [role |-> "assistant"], NumberedTurn(3)>>
      [] OTHER -> <<NonDict(MsgOne), NumberedTurn(2)>>

\* the histories handed to build_payload: HistoryOf(0..MaxCached), then the mixed ones
PayloadHistory(n) == IF n <= MaxCached THEN HistoryOf(n) ELSE MixedHistory(n - MaxCached)

PayloadAgents == AGENT_PROFILES \cup {"qa_tester"}
PayloadScopes == {None, "user", "expert", "project"}
PayloadDomains == {None, "algorithm"}
PayloadMessages == {MsgOne, << >>}
ExtraContexts == {EmptyText, Text("extra_context", None, <<"bei", "jing">>)}

\* one record of the user scope
UserRecord ==
    StoredRecord([user_id |-> "u1", agent_id |-> None, session_id |-> None], <<MsgOne>>,
                 FullMetadata("user", None, "user"))

PayloadStores == {<< >>, <<UserRecord>>}

\* what the store does to the first attempt of every search and to its retry
StoreOutcomes ==
    {<<o, "dict">> : o \in ReadOutcomes} \cup {<<"raise", "raise">>}

\* every store call of the build fails
StoreDown(b) == b.outcomes = <<"raise", "raise">>

InitPayload ==
    /\ \E st \in StoreChoices : /\ capabilities = st.capabilities
                                /\ store_filters = st.filters
    /\ memory \in PayloadStores
    /\ cache = [u \in Users |-> << >>]
    /\ pc = "idle"
    /\ run = NoRun
    /\ pending = NoCall
    /\ result = NoResult
    /\ llm_log = << >>
    /\ build_log = << >>
    /\ selector_log = << >>
    /\ write_log = << >>
    /\ last_read = NoRead
    /\ faults = 0
    /\ runs = 0
    /\ \E a \in PayloadAgents, mt \in PayloadScopes, d \in PayloadDomains,
          m \in PayloadMessages, x \in ExtraContexts, n \in 0..(MaxCached + NumMixed),
          o \in StoreOutcomes :
          \* a domain given for the coordinating role filters the collaboration
          \* text by keyword; no caller gives one
          /\ a = "project_brain" => d = None
          /\ build = [called |-> FALSE, user_id |-> "u1", agent_id |-> a,
                      session_id |-> "s1", user_message |-> m,
                      cached_messages |-> PayloadHistory(n), extra_context |-> x,
                      memory_type |-> mt, expert_domain |-> d, outcomes |-> o]
    /\ selection = NoSelection
    /\ appended = << >>
    /\ cache_op = NoCacheOp
    /\ threads = << >>

\* ContextOrchestrator.build_payload applied to the arguments drawn
BuildPayload ==
    /\ ~build.called
    /\ build' = [called |-> TRUE, user_id |-> build.user_id, agent_id |-> build.agent_id,
                 session_id |-> build.session_id, user_message |-> build.user_message,
                 cached_messages |-> build.cached_messages,
                 extra_context |-> build.extra_context,
                 memory_type |-> build.memory_type, expert_domain |-> build.expert_domain,
                 outcomes |-> build.outcomes,
                 payload |-> build_payload(
                     StoreView(memory, capabilities, store_filters,
                               build.outcomes[1], build.outcomes[2]),
                     build.user_id, build.agent_id, build.session_id, build.user_message,
                     build.cached_messages, build.extra_context, build.memory_type,
                     EmptyDict, build.expert_domain)]
    /\ UNCHANGED <<capabilities, store_filters, memory, cache, selection, appended, cache_op,
                   threads>>
    /\ UNCHANGED pipeline_vars

NextPayload == BuildPayload

SpecPayload == InitPayload /\ [][NextPayload]_vars

\* the last fragment of a payload is the user fragment with the message given
EndsWithUserMessage(b) ==
    /\ Len(b.payload.messages) >= 1
    /\ b.payload.messages[Len(b.payload.messages)].role = "user"
    /\ b.payload.messages[Len(b.payload.messages)].content = b.user_message

\* C11: when every store call fails, build_payload still returns, for every
\* role and scope, a payload that is not empty and whose last fragment is the
\* user's message
C11_StoreDownStillPayload ==
    (build.called /\ StoreDown(build)) => EndsWithUserMessage(build)

\* a build with the store down that went through the normal assembly
C11_Witness ==
    /\ build.called
    /\ StoreDown(build)
    /\ ~build.payload.degraded
    /\ build.agent_id = "project_brain"
    /\ EndsWithUserMessage(build)

\* the builds in which a step of the assembly raises: the expert excerpt is
\* fetched with a keyword search_memories does not have, the project excerpt
\* slices the dict search_memories returns
AssemblyRaises(b) ==
    \/ b.memory_type = "expert" /\ b.expert_domain # None
    \/ b.memory_type = "project"

\* C12: when a step of the assembly raises, build_payload returns exactly two
\* fragments, the system degraded notice and then the user fragment with the
\* raw message, with memory_used false, memories_count 0 and no collaborators
C12_DegradedPayloadShape ==
    (build.called /\ AssemblyRaises(build)) =>
        /\ Len(build.payload.messages) = 2
        /\ build.payload.messages[1].role = "system"
        /\ build.payload.messages[1].layer = "degraded"
        /\ build.payload.messages[2].role = "user"
        /\ build.payload.messages[2].content = build.user_message
        /\ build.payload.memory_used = FALSE
        /\ build.payload.memories_count = 0
        /\ build.payload.collaborators = << >>

\* the coordinating role's project-scope build, with extra context and cached
\* history that the degraded payload leaves out
C12_Witness ==
    /\ build.called
    /\ build.agent_id = "project_brain"
    /\ build.memory_type = "project"
    /\ Truthy(build.extra_context)
    /\ Len(build.cached_messages) > 0
    /\ build.payload.degraded
    /\ Len(build.payload.messages) = 2

\* position of a layer in the layering order; the degraded notice stands where
\* the instructions would
LayerRank(layer) ==
    CASE layer \in {"instructions", "degraded"} -> 1
      [] layer = "memory" -> 2
      [] layer = "collaboration" -> 3
      [] layer = "external" -> 4
      [] layer = "history" -> 5
      [] layer = "current" -> 6

InLayerOrder(messages) ==
    \A i, j \in 1..Len(messages) :
        i < j => LayerRank(messages[i].layer) <= LayerRank(messages[j].layer)

\* the fragments of one layer
LayerOf(messages, layer) == SelectSeq(messages, LAMBDA f : f.layer = layer)

\* C13: the fragments of every payload are in the layering order (instructions,
\* memory, collaboration, external context, trimmed history, current message),
\* a layer with nothing to say has no fragment, and the last fragment is the
\* user fragment carrying the current message
C13_LayerOrder ==
    build.called =>
        /\ InLayerOrder(build.payload.messages)
        /\ EndsWithUserMessage(build)
        /\ Len(LayerOf(build.payload.messages, "current")) = 1
        /\ \A i \in 1..Len(build.payload.messages) :
              build.payload.messages[i].layer # "current" =>
                  build.payload.messages[i].content # EmptyText
        /\ ~build.payload.degraded =>
              /\ LayerOf(build.payload.messages, "history")
                    = HistoryFragments(TrimHistory(build.cached_messages))
              /\ (LayerOf(build.payload.messages, "external") # << >>)
                    <=> Truthy(build.extra_context)

\* a payload with all six layers, its history cut to max_history entries
C13_Witness ==
    /\ build.called
    /\ ~build.payload.degraded
    /\ Len(build.cached_messages) > MaxHistoryMessages
    /\ Len(build.payload.messages) = 4 + MaxHistoryMessages + 1
    /\ build.payload.messages[3].layer = "collaboration"
    /\ build.payload.messages[4].layer = "external"
    /\ build.payload.messages[5].layer = "history"

SystemLayers == {"instructions", "memory", "collaboration", "external"}

\* C14: a payload holds at most one fragment for each of the instruction,
\* memory, collaboration and external-context layers, and no system fragment
\* outside the layers other than the degraded notice
C14_OneFragmentPerLayer ==
    build.called =>
        /\ \A layer \in SystemLayers : Len(LayerOf(build.payload.messages, layer)) <= 1
        /\ Len(LayerOf(build.payload.messages, "degraded"))
              = (IF build.payload.degraded THEN 1 ELSE 0)
        /\ build.payload.degraded =>
              \A layer \in SystemLayers : LayerOf(build.payload.messages, layer) = << >>

\* a payload that has each of the four layers, once
C14_Witness ==
    /\ build.called
    /\ ~build.payload.degraded
    /\ ~StoreDown(build)
    /\ memory # << >>
    /\ \A layer \in SystemLayers : Len(LayerOf(build.payload.messages, layer)) = 1

\* the searches of a build made by one of its steps
SearchesBy(b, by) == SelectSeq(b.payload.searches, LAMBDA c : c.by = by)

\* the memory-layer text of a payload prints every record of the list
InMemoryLayer(records, messages) ==
    \A j \in 1..Len(records) :
        \E i \in 1..Len(messages) :
            /\ messages[i].layer = "memory"
            /\ PrintedInText(records[j], messages[i].content)

\* C28: build_payload always makes the user-scope lookup; with scope expert it
\* also makes one expert-scope lookup filtered by the role id and the role's
\* domain, with scope project one project-scope lookup filtered by the session
\* id, and what these find is in the memory layer; with any other scope it
\* makes neither
C28_ScopedLookups ==
    build.called =>
        /\ Len(SearchesBy(build, "user")) = 1
        /\ SearchesBy(build, "user")[1].memory_type = "user"
        /\ build.memory_type = "expert" =>
              /\ Len(SearchesBy(build, "expert")) = 1
              /\ SearchesBy(build, "expert")[1].agent_id = build.agent_id
              /\ SearchesBy(build, "expert")[1].memory_type = "expert"
              /\ InMemoryLayer(SearchResults(StoreView(memory, capabilities, store_filters,
                                                       build.outcomes[1], build.outcomes[2]),
                                             build.user_id, SearchesBy(build, "expert")[1]),
                               build.payload.messages)
        /\ build.memory_type = "project" =>
              /\ Len(SearchesBy(build, "project")) = 1
              /\ SearchesBy(build, "project")[1].session_id = build.session_id
              /\ SearchesBy(build, "project")[1].memory_type = "project"
              /\ InMemoryLayer(SearchResults(StoreView(memory, capabilities, store_filters,
                                                       build.outcomes[1], build.outcomes[2]),
                                             build.user_id, SearchesBy(build, "project")[1]),
                               build.payload.messages)
        /\ build.memory_type \notin {"expert", "project"} =>
              /\ SearchesBy(build, "expert") = << >>
              /\ SearchesBy(build, "project") = << >>

\* the store as the build drawn sees it
BuildStore(b) ==
    StoreView(memory, capabilities, store_filters, b.outcomes[1], b.outcomes[2])

\* every search of the build came back without a record
NothingFound(b) ==
    \A k \in 1..Len(b.payload.searches) :
        SearchResults(BuildStore(b), b.user_id, b.payload.searches[k]) = << >>

\* some record is printed in the memory layer or the collaboration layer
SomeRecordExcerpted(messages) ==
    \E i \in 1..Len(messages) :
        /\ messages[i].layer \in {"memory", "collaboration"}
        /\ \E k \in 1..Len(messages[i].content.msg) :
              messages[i].content.msg[k].records # << >>

\* C29: when every search of a build returns no record (the store failing
\* included) the payload has no memory fragment and no collaboration fragment,
\* memory_used is false and memories_count is 0; memory_used is true only when
\* a retrieved record is excerpted in the payload
C29_EmptyLayersOmitted ==
    build.called =>
        /\ NothingFound(build) =>
              /\ LayerOf(build.payload.messages, "memory") = << >>
              /\ LayerOf(build.payload.messages, "collaboration") = << >>
              /\ build.payload.memory_used = FALSE
              /\ build.payload.memories_count = 0
        /\ build.payload.memory_used => SomeRecordExcerpted(build.payload.messages)

\* the roles of a list of searches / of a collaborator list
RolesOf(seq) == {seq[i] : i \in 1..Len(seq)}

\* the searches of get_collaborative_context made by a build
CollaborativeSearchesOf(b) ==
    SelectSeq(b.payload.searches,
              LAMBDA c : c.by \in {"collab_user", "collab_primary", "collab_peer",
                                   "collab_broad"})

\* C30: for a role other than the coordinating role build_payload makes no
\* collaborator search and the payload has no collaboration fragment; for the
\* coordinating role it makes exactly one expert-scope search per specialist of
\* the profile table, and the payload's collaborator list is those specialists
C30_CollaborationOnlyForCoordinator ==
    build.called =>
        /\ build.agent_id # PROJECT_BRAIN_ID =>
              /\ CollaborativeSearchesOf(build) = << >>
              /\ LayerOf(build.payload.messages, "collaboration") = << >>
        /\ build.agent_id = PROJECT_BRAIN_ID =>
              /\ Len(SearchesBy(build, "collab_peer")) = Cardinality(Specialists)
              /\ {SearchesBy(build, "collab_peer")[i].agent_id :
                      i \in 1..Len(SearchesBy(build, "collab_peer"))} = Specialists
              /\ \A i \in 1..Len(SearchesBy(build, "collab_peer")) :
                    SearchesBy(build, "collab_peer")[i].memory_type = "expert"
              /\ Len(build.payload.collaborators) = Cardinality(Specialists)
              /\ RolesOf(build.payload.collaborators) = Specialists

(***************************************************************************)
(* Two runs of the same user finalizing at the same time                   *)
(* Each thread is inside _finalize_interaction with persist_history set and *)
(* makes its two add_message calls.  Nothing in the cache or in the engine *)
(* takes a lock, so the threads interleave at every step of add_message:   *)
(* the membership test of get_user_cache, the creation of the deque, the   *)
(* dictionary lookup that returns it, and the append.                      *)
(***************************************************************************)
\* number of concurrent runs
NumThreads == 2

Threads == 1..NumThreads
ConcurrentUser == "u1"

\* the message of thread t's run (one syllable more per thread, so that the
\* turns of different runs differ)
ThreadMessage(t) == [i \in 1..t |-> "wen"]
ThreadReply(t) == Text("reply", None, ThreadMessage(t))

\* the turn thread t appends first (1) and second (2)
ThreadTurn(t, k) ==
    IF k = 1 THEN ChatMessage("user", ThreadMessage(t))
    ELSE ChatMessage("assistant", ThreadReply(t))

InitConcurrent ==
    /\ \E st \in StoreChoices : /\ capabilities = st.capabilities
                                /\ store_filters = st.filters
    /\ memory = << >>
    /\ \E n \in 0..CONVERSATION_CACHE_SIZE, present \in BOOLEAN :
          /\ n > 0 => present
          /\ cache = [u \in Users |-> HistoryOf(n)]
          /\ threads = [present |-> present,
                        at |-> [t \in Threads |->
                                   [pc |-> "check", turn |-> 1, ref |-> "none"]]]
    /\ pc = "idle"
    /\ run = NoRun
    /\ pending = NoCall
    /\ result = NoResult
    /\ llm_log = << >>
    /\ build_log = << >>
    /\ selector_log = << >>
    /\ write_log = << >>
    /\ last_read = NoRead
    /\ faults = 0
    /\ runs = 0
    /\ build = NoBuild
    /\ selection = NoSelection
    /\ appended = << >>
    /\ cache_op = NoCacheOp

ConcurrentFrame ==
    /\ UNCHANGED <<capabilities, store_filters, memory, build, selection, appended, cache_op>>
    /\ UNCHANGED pipeline_vars

\* get_user_cache: `if user_id not in self._cache`
CheckUser(t) ==
    /\ threads.at[t].pc = "check"
    /\ threads' = [threads EXCEPT
                     !.at[t].pc = IF threads.present THEN "fetch" ELSE "create"]
    /\ UNCHANGED cache
    /\ ConcurrentFrame

\* get_user_cache: `self._cache[user_id] = deque(maxlen=self.max_size)`; a
\* thread that already holds the deque this one replaces is left with a deque
\* the dictionary no longer refers to
CreateBuffer(t) ==
    /\ threads.at[t].pc = "create"
    /\ cache' = [cache EXCEPT ![ConcurrentUser] = << >>]
    /\ threads' = [present |-> TRUE,
                   at |-> [t2 \in Threads |->
                              IF t2 = t
                              THEN [threads.at[t2] EXCEPT !.pc = "fetch"]
                              ELSE IF threads.at[t2].ref = "dict"
                              THEN [threads.at[t2] EXCEPT !.ref = "orphan"]
                              ELSE threads.at[t2]]]
    /\ ConcurrentFrame

\* get_user_cache: `return self._cache[user_id]`
FetchBuffer(t) ==
    /\ threads.at[t].pc = "fetch"
    /\ threads' = [threads EXCEPT !.at[t].pc = "append", !.at[t].ref = "dict"]
    /\ UNCHANGED cache
    /\ ConcurrentFrame

\* add_message: `cache.append(message.to_dict())` on the deque fetched; after
\* the user turn the thread goes on to the add_message of the assistant turn
AppendTurn(t) ==
    /\ threads.at[t].pc = "append"
    /\ cache' = IF threads.at[t].ref = "dict"
                THEN [cache EXCEPT ![ConcurrentUser] =
                         DequeAppend(cache[ConcurrentUser],
                                     ThreadTurn(t, threads.at[t].turn),
                                     CONVERSATION_CACHE_SIZE)]
                ELSE cache
    /\ threads' = [threads EXCEPT
                     !.at[t].pc = IF threads.at[t].turn = 1 THEN "check" ELSE "done",
                     !.at[t].turn = 2,
                     !.at[t].ref = "none"]
    /\ ConcurrentFrame

NextConcurrent ==
    \/ \E t \in Threads : CheckUser(t)
    \/ \E t \in Threads : CreateBuffer(t)
    \/ \E t \in Threads : FetchBuffer(t)
    \/ \E t \in Threads : AppendTurn(t)

SpecConcurrent == InitConcurrent /\ [][NextConcurrent]_vars

\* the positions of a turn in the user's buffer
PositionsOf(turn) ==
    {i \in 1..Len(cache[ConcurrentUser]) : cache[ConcurrentUser][i] = turn}

\* C16: once a run has finalized, its user turn and its assistant turn sit
\* next to each other in the user's buffer, the user turn first, whatever the
\* other run did meanwhile
C16_TurnsAdjacent ==
    \A t \in Threads :
        threads.at[t].pc = "done" =>
            \E i \in PositionsOf(ThreadTurn(t, 1)) : i + 1 \in PositionsOf(ThreadTurn(t, 2))

(***************************************************************************)
(* ConversationCache called on its own                                     *)
(***************************************************************************)
\* appends made in one behaviour (more than the capacity, so that eviction
\* happens)
MaxAppends == 7

CacheUsers == {"u1", "u2"}

\* the absent limit of get_recent_messages, which takes the branch of limit <= 0
NoLimit == 0

RecentLimits == {-1, NoLimit, 1, 3, CONVERSATION_CACHE_SIZE, CONVERSATION_CACHE_SIZE + 1}

\* the n-th turn appended to a buffer: every turn differs from the others
NthTurn(n) ==
    ChatMessage(IF n % 2 = 1 THEN "user" ELSE "assistant", [i \in 1..n |-> "wen"])

RECURSIVE TotalAppended(_)
TotalAppended(users) ==
    IF users = {} THEN 0
    ELSE LET u == CHOOSE x \in users : TRUE
         IN  Len(appended[u]) + TotalAppended(users \ {u})

InitCache ==
    /\ \E st \in StoreChoices : /\ capabilities = st.capabilities
                                /\ store_filters = st.filters
    /\ memory = << >>
    /\ cache = [u \in CacheUsers |-> << >>]
    /\ appended = [u \in CacheUsers |-> << >>]
    /\ cache_op = NoCacheOp
    /\ pc = "idle"
    /\ run = NoRun
    /\ pending = NoCall
    /\ result = NoResult
    /\ llm_log = << >>
    /\ build_log = << >>
    /\ selector_log = << >>
    /\ write_log = << >>
    /\ last_read = NoRead
    /\ faults = 0
    /\ runs = 0
    /\ build = NoBuild
    /\ selection = NoSelection
    /\ threads = << >>

CacheFrame ==
    /\ UNCHANGED <<capabilities, store_filters, memory, build, selection, threads>>
    /\ UNCHANGED pipeline_vars

\* conversation_cache.add_message(user_id, message)
AddMessage(user_id) ==
    /\ TotalAppended(CacheUsers) < MaxAppends
    /\ LET message == NthTurn(Len(appended[user_id]) + 1)
       IN  /\ cache' = add_message(cache, user_id, message)
           /\ appended' = [appended EXCEPT ![user_id] = Append(@, message)]
           /\ cache_op' = [called |-> TRUE, op |-> "add_message", user_id |-> user_id,
                           limit |-> NoLimit, messages |-> << >>, before |-> cache]
    /\ CacheFrame

\* clear_conversation_cache(user_id): conversation_cache.clear(user_id)
ClearCache(user_id) ==
    /\ cache' = clear(cache, user_id)
    /\ appended' = [appended EXCEPT ![user_id] = << >>]
    /\ cache_op' = [called |-> TRUE, op |-> "clear", user_id |-> user_id,
                    limit |-> NoLimit, messages |-> << >>, before |-> cache]
    /\ CacheFrame

\* conversation_cache.get_recent_messages(user_id, limit)
GetRecentMessages(user_id, limit) ==
    /\ cache_op' = [called |-> TRUE, op |-> "get_recent_messages", user_id |-> user_id,
                    limit |-> limit,
                    messages |-> get_recent_messages(cache, user_id, limit),
                    before |-> cache]
    /\ UNCHANGED <<cache, appended>>
    /\ CacheFrame

NextCache ==
    \/ \E u \in CacheUsers : AddMessage(u)
    \/ \E u \in CacheUsers : ClearCache(u)
    \/ \E u \in CacheUsers, limit \in RecentLimits : GetRecentMessages(u, limit)

SpecCache == InitCache /\ [][NextCache]_vars

\* the last n elements of a sequence, all of it when it has fewer
LastOf(seq, n) ==
    [k \in 1..(IF Len(seq) < n THEN Len(seq) ELSE n) |->
        seq[Len(seq) - (IF Len(seq) < n THEN Len(seq) ELSE n) + k]]

\* C17: a buffer never holds more than the capacity; it holds the last
\* `capacity` turns appended to it, in the order they were appended (so an
\* append at capacity drops the oldest turn and nothing else), and
\* get_recent_messages without a limit returns exactly those turns
C17_RingBuffer ==
    /\ \A u \in DOMAIN appended :
          /\ Len(cache[u]) <= CONVERSATION_CACHE_SIZE
          /\ cache[u] = LastOf(appended[u], CONVERSATION_CACHE_SIZE)
    /\ (cache_op.called /\ cache_op.op = "get_recent_messages" /\ cache_op.limit = NoLimit) =>
          cache_op.messages = LastOf(appended[cache_op.user_id], CONVERSATION_CACHE_SIZE)
    /\ (cache_op.called /\ cache_op.op = "add_message"
        /\ Len(cache_op.before[cache_op.user_id]) = CONVERSATION_CACHE_SIZE) =>
          /\ Len(cache[cache_op.user_id]) = CONVERSATION_CACHE_SIZE
          /\ \A k \in 1..(CONVERSATION_CACHE_SIZE - 1) :
                cache[cache_op.user_id][k] = cache_op.before[cache_op.user_id][k + 1]

\* more turns appended than the capacity, then read without a limit
C17_Witness ==
    /\ cache_op.called
    /\ cache_op.op = "get_recent_messages"
    /\ cache_op.limit = NoLimit
    /\ Len(appended[cache_op.user_id]) > CONVERSATION_CACHE_SIZE
    /\ Len(cache_op.messages) = CONVERSATION_CACHE_SIZE
    /\ cache_op.messages[1] = appended[cache_op.user_id][Len(appended[cache_op.user_id])
                                                          - CONVERSATION_CACHE_SIZE + 1]

\* C18: right after clear(u), get_recent_messages(u) without a limit is the
\* empty list, and the buffer of every other user is what it was before
C18_ClearFrame ==
    (cache_op.called /\ cache_op.op = "clear") =>
        /\ get_recent_messages(cache, cache_op.user_id, NoLimit) = << >>
        /\ \A v \in DOMAIN cache :
              v # cache_op.user_id => cache[v] = cache_op.before[v]

\* a clear of a user who held turns while another user held turns too
C18_Witness ==
    /\ cache_op.called
    /\ cache_op.op = "clear"
    /\ cache_op.before[cache_op.user_id] # << >>
    /\ cache[cache_op.user_id] = << >>
    /\ \E v \in DOMAIN cache : v # cache_op.user_id /\ Len(cache[v]) >= 2

Min(a, b) == IF a < b THEN a ELSE b

\* C19: get_recent_messages(u, limit) with limit > 0 returns the last
\* min(limit, held) turns of u, oldest first; with limit <= 0 or without a
\* limit it returns all turns held; no buffer is changed by the call
C19_RecentMessages ==
    (cache_op.called /\ cache_op.op = "get_recent_messages") =>
        LET held == cache_op.before[cache_op.user_id]
            got == cache_op.messages
        IN  /\ cache_op.limit > 0 =>
                  /\ Len(got) = Min(cache_op.limit, Len(held))
                  /\ \A k \in 1..Len(got) : got[k] = held[Len(held) - Len(got) + k]
            /\ cache_op.limit <= 0 => got = held
            /\ cache = cache_op.before

\* a read of the last three turns of a full buffer
C19_Witness ==
    /\ cache_op.called
    /\ cache_op.op = "get_recent_messages"
    /\ cache_op.limit = 3
    /\ Len(cache_op.before[cache_op.user_id]) = CONVERSATION_CACHE_SIZE
    /\ Len(cache_op.messages) = 3
    /\ cache_op.messages[3] = cache_op.before[cache_op.user_id][CONVERSATION_CACHE_SIZE]

(***************************************************************************)
(* select_specialists called on its own                                    *)
(***************************************************************************)
\* longest message handed to the selector, in syllables
MaxMsgLen == 3

\* syllables of the messages: some make up keywords of a specialist ("suan fa",
\* "AI", "yong hu"), some a keyword of the coordinating role only ("xiang mu"),
\* one belongs to no keyword
Syllables == {"ni", "suan", "fa", "A", "I", "xiang", "mu", "yong", "hu"}

SelectorMessages == UNION {[1..n -> Syllables] : n \in 0..MaxMsgLen}

\* longest message made of whole words
MaxWords == 3

\* words of the longer messages: a keyword of each specialist ("yong hu",
\* "suan fa", "xii tong", "API"), one of the coordinating role ("xiang mu")
\* and a word that is no keyword
Words == {<<"yong", "hu">>, <<"suan", "fa">>, <<"xii", "tong">>, <<"A", "P", "I">>, <<"xiang", "mu">>, <<"ni">>}

RECURSIVE Flatten(_)
Flatten(ws) == IF ws = << >> THEN << >> ELSE Head(ws) \o Flatten(Tail(ws))

PhraseMessages == {Flatten(ws) : ws \in UNION {[1..n -> Words] : n \in 0..MaxWords}}

InitSelector ==
    /\ \E st \in StoreChoices : /\ capabilities = st.capabilities
                                /\ store_filters = st.filters
    /\ memory = << >>
    /\ cache = [u \in Users |-> << >>]
    /\ pc = "idle"
    /\ run = NoRun
    /\ pending = NoCall
    /\ result = NoResult
    /\ llm_log = << >>
    /\ build_log = << >>
    /\ selector_log = << >>
    /\ write_log = << >>
    /\ last_read = NoRead
    /\ faults = 0
    /\ runs = 0
    /\ build = NoBuild
    /\ \E message \in SelectorMessages \cup PhraseMessages :
          selection = [called |-> FALSE, message |-> message, selected |-> << >>]
    /\ appended = << >>
    /\ cache_op = NoCacheOp
    /\ threads = << >>

\* AgentSelector.select_specialists applied to the message drawn
ApplySelector ==
    /\ ~selection.called
    /\ selection' = [called |-> TRUE, message |-> selection.message,
                     selected |-> select_specialists(selection.message)]
    /\ UNCHANGED <<capabilities, store_filters, memory, cache, build, appended, cache_op,
                   threads>>
    /\ UNCHANGED pipeline_vars

NextSelector == ApplySelector

SpecSelector == InitSelector /\ [][NextSelector]_vars

\* keyword occurs in message as a run of consecutive syllables, case ignored
Occurs(keyword, message) ==
    \E i \in 1..Len(message) :
        /\ i + Len(keyword) - 1 <= Len(message)
        /\ \A k \in 1..Len(keyword) : LowerChar(message[i + k - 1]) = LowerChar(keyword[k])

\* no keyword of any specialist profile occurs in the message
NoKeywordMatch(message) ==
    \A a \in AGENT_PROFILES :
        AgentType(a) = "specialist" =>
            \A j \in 1..Len(ExpertiseKeywords(a)) : ~Occurs(ExpertiseKeywords(a)[j], message)

\* C20: for a message in which no specialist keyword occurs, the empty message
\* included, select_specialists returns the fallback list cut to the cap
C20_FallbackOnNoMatch ==
    (selection.called /\ NoKeywordMatch(selection.message)) =>
        /\ Len(selection.selected) = Min(Len(FallbackSpecialists), MaxSpecialists)
        /\ \A k \in 1..Len(selection.selected) : selection.selected[k] = FallbackSpecialists[k]

\* a message that holds a keyword of the coordinating role and none of a specialist
C20_Witness ==
    /\ selection.called
    /\ selection.message = <<"xiang", "mu", "ni">>
    /\ NoKeywordMatch(selection.message)
    /\ selection.selected = <<"product_lead", "solution_architect">>

\* the empty message
C20_WitnessEmpty ==
    /\ selection.called
    /\ selection.message = << >>
    /\ selection.selected = <<"product_lead", "solution_architect">>

\* C21: whatever the message, select_specialists returns at most the cap of
\* role ids, each of them a key of the profile table, when roles scored and
\* when the fallback list is used
C21_WithinCapAndTable ==
    selection.called =>
        /\ Len(selection.selected) <= MaxSpecialists
        /\ \A k \in 1..Len(selection.selected) : selection.selected[k] \in AGENT_PROFILES

\* a message on which every specialist scores: the scored path fills the cap
C21_Witness ==
    /\ selection.called
    /\ ~NoKeywordMatch(selection.message)
    /\ Len(selection.selected) = MaxSpecialists
    /\ \A k \in 1..Len(selection.selected) : selection.selected[k] \in AGENT_PROFILES

\* the number of places at which keyword occurs in message, case ignored
OccurrenceCount(keyword, message) ==
    Cardinality({i \in 1..Len(message) :
                    /\ i + Len(keyword) - 1 <= Len(message)
                    /\ \A k \in 1..Len(keyword) :
                          LowerChar(message[i + k - 1]) = LowerChar(keyword[k])})

RECURSIVE OccurrenceSum(_, _, _)
OccurrenceSum(keywords, message, j) ==
    IF j > Len(keywords) THEN 0
    ELSE OccurrenceCount(keywords[j], message) + OccurrenceSum(keywords, message, j + 1)

OccurrenceScore(a, message) == OccurrenceSum(ExpertiseKeywords(a), message, 1)

\* the specialists that score above 0 on message
Scorers(message) ==
    {a \in AGENT_PROFILES : AgentType(a) = "specialist" /\ OccurrenceScore(a, message) > 0}

TableIndex(a) == CHOOSE i \in 1..Len(AgentOrder) : AgentOrder[i] = a

\* a comes before b: higher score, or the same score and earlier in the table
RanksBefore(a, b, message) ==
    \/ OccurrenceScore(a, message) > OccurrenceScore(b, message)
    \/ /\ OccurrenceScore(a, message) = OccurrenceScore(b, message)
       /\ TableIndex(a) < TableIndex(b)

\* C22: when a specialist scores above 0, select_specialists returns the
\* specialists with a positive score and no other role, the higher score first
\* and equal scores in table order, cut to the cap; the roles left out by the
\* cut rank after every role returned
C22_ScoredSelection ==
    (selection.called /\ Scorers(selection.message) # {}) =>
        LET sel == selection.selected
            m == selection.message
        IN  /\ Len(sel) = Min(Cardinality(Scorers(m)), MaxSpecialists)
            /\ \A k \in 1..Len(sel) : sel[k] \in Scorers(m)
            /\ \A i, j \in 1..Len(sel) : i < j => RanksBefore(sel[i], sel[j], m)
            /\ \A a \in Scorers(m) :
                  (\A k \in 1..Len(sel) : sel[k] # a) =>
                      \A k \in 1..Len(sel) : RanksBefore(sel[k], a, m)

\* the architect scores 2 and comes first; the product role, scoring 1, follows;
\* the coordinating role's keyword and the role without a match are left out
C22_Witness ==
    /\ selection.called
    /\ selection.message = <<"yong", "hu", "xii", "tong", "A", "P", "I">>
    /\ selection.selected = <<"solution_architect", "product_lead">>

\* equal scores: table order
C22_WitnessTie ==
    /\ selection.called
    /\ selection.message = <<"xii", "tong", "xiang", "mu", "yong", "hu">>
    /\ selection.selected = <<"product_lead", "solution_architect">>

(***************************************************************************)
(* The memory gateway called on its own                                    *)
(* store_memory, search_memories and get_all_memories against a store that *)
(* may lack optional parameters, may raise, and may answer in any shape.   *)
(* write_log holds the last write, last_read the last read.                *)
(***************************************************************************)
\* records the store holds at most
MaxRecords == 2

WriteAgents == {None, "product_lead"}
GatewayReadAgents == {None, "algo_scientist"}
GatewaySessions == {None, "s1"}

\* outcomes of the first call and of the retry of a read
ReadOutcomePairs ==
    {<<o, "dict">> : o \in Shapes} \cup {<<"raise", o>> : o \in ReadOutcomes}

\* outcomes of the first add and of the fallback add
AddOutcomePairs == {<<"ok", "ok">>, <<"raise", "ok">>, <<"raise", "raise">>}

InitGateway ==
    /\ \E st \in StoreChoices : /\ capabilities = st.capabilities
                                /\ store_filters = st.filters
    /\ memory = << >>
    /\ cache = [u \in Users |-> << >>]
    /\ pc = "idle"
    /\ run = NoRun
    /\ pending = NoCall
    /\ result = NoResult
    /\ llm_log = << >>
    /\ build_log = << >>
    /\ selector_log = << >>
    /\ write_log = << >>
    /\ last_read = NoRead
    /\ faults = 0
    /\ runs = 0
    /\ ComponentsIdle

GatewayFrame ==
    /\ UNCHANGED <<capabilities, store_filters, cache, pc, run, pending, result, llm_log,
                   build_log, selector_log, faults, runs>>
    /\ UNCHANGED component_vars

\* memory_manager.store_memory(content, user_id, agent_id, session_id, memory_type)
GatewayStoreMemory(agent_id, oa) ==
    /\ Len(memory) < MaxRecords
    /\ LET w == store_memory(memory, capabilities, MsgOne, "u1", agent_id, "s1", "expert",
                             oa[1], oa[2])
       IN  /\ memory' = w.mem
           /\ write_log' = <<[op |-> "store_memory", agent_id |-> agent_id,
                              memory_type |-> "expert", content |-> MsgOne,
                              adds |-> w.adds, ok |-> w.ok,
                              stored |-> Len(w.mem) - Len(memory), outcomes |-> oa]>>
    /\ last_read' = NoRead
    /\ GatewayFrame

\* what a read leaves in last_read
ReadRecord(op, agent_id, session_id, o, r, found) ==
    [op |-> op, user_id |-> "u1", agent_id |-> agent_id, session_id |-> session_id,
     memory_type |-> "expert", outcomes |-> o, calls |-> r.calls, results |-> r.results,
     raised |-> r.raised, found |-> found]

\* memory_manager.search_memories(query, user_id, limit, agent_id, session_id, memory_type)
GatewaySearch(agent_id, session_id, o) ==
    /\ LET r == search_memories(memory, capabilities, store_filters, "u1",
                                MEMORY_SEARCH_LIMIT, agent_id, session_id, "expert", None,
                                o[1], o[2])
       IN  last_read' = ReadRecord("search_memories", agent_id, session_id, o, r,
                                   Matches(memory, r.calls[Len(r.calls)].params))
    /\ write_log' = << >>
    /\ UNCHANGED memory
    /\ GatewayFrame

\* memory_manager.get_all_memories(user_id, limit, agent_id, session_id, memory_type)
GatewayGetAll(agent_id, session_id, o) ==
    /\ LET r == get_all_memories(memory, capabilities, store_filters, "u1", 100, agent_id,
                                 session_id, "expert", None, o[1], o[2])
       IN  last_read' = ReadRecord("get_all_memories", agent_id, session_id, o, r,
                                   Matches(memory, r.calls[Len(r.calls)].params))
    /\ write_log' = << >>
    /\ UNCHANGED memory
    /\ GatewayFrame

NextGateway ==
    \/ \E a \in WriteAgents, oa \in AddOutcomePairs : GatewayStoreMemory(a, oa)
    \/ \E a \in GatewayReadAgents, sid \in GatewaySessions, o \in ReadOutcomePairs :
           GatewaySearch(a, sid, o)
    \/ \E a \in GatewayReadAgents, sid \in GatewaySessions, o \in ReadOutcomePairs :
           GatewayGetAll(a, sid, o)

SpecGateway == InitGateway /\ [][NextGateway]_vars

\* a gateway read has been made
ReadMade == last_read # NoRead

\* the capability that guards the role id (resp. session id) of the last read
ReadAgentCapability ==
    IF last_read.op = "search_memories" THEN capabilities.search_agent
    ELSE capabilities.get_all_agent
ReadSessionCapability ==
    IF last_read.op = "search_memories" THEN capabilities.search_session
    ELSE capabilities.get_all_session

\* C23: a role id or a session id goes to the store, on search, list and
\* write, only when the capability probed for that method says the store takes
\* it; on a store without role-scoping a write given a role id leaves the role
\* id out and, the store being healthy, succeeds
C23_FiltersFollowCapabilities ==
    /\ ReadMade =>
          /\ last_read.calls[1].params.agent_id # None => ReadAgentCapability
          /\ last_read.calls[1].params.session_id # None => ReadSessionCapability
    /\ \A i \in 1..Len(write_log) :
          /\ \A j \in 1..Len(write_log[i].adds) :
                /\ write_log[i].adds[j].params.agent_id # None => capabilities.add_agent
                /\ write_log[i].adds[j].params.session_id # None => capabilities.add_session
          /\ write_log[i].outcomes = <<"ok", "ok">> => write_log[i].ok

\* C24: when the first add of a write raises, exactly one further add is made,
\* with the minimal payload; the write returns true when that add goes through
\* and false when it raises too, so that a write returns true exactly when a
\* record was stored
C24_FallbackWriteReported ==
    \A i \in 1..Len(write_log) :
        LET w == write_log[i]
        IN  /\ w.adds[1].raised =>
                  /\ Len(w.adds) = 2
                  /\ w.adds[2].format = "simple"
                  /\ w.ok <=> ~w.adds[2].raised
            /\ w.ok <=> (w.stored > 0)

\* C25: when the store's search (resp. get_all) call raises, search_memories
\* (resp. get_all_memories) returns an empty result set and does not raise
C25_FailedReadIsEmpty ==
    (ReadMade /\ last_read.calls[1].raised) =>
        /\ ~last_read.raised
        /\ last_read.results = << >>

\* the shape in which the store answered the call whose value the read returns
AnsweredShape ==
    IF last_read.outcomes[1] # "raise" THEN last_read.outcomes[1] ELSE last_read.outcomes[2]

\* C26: every read returns a value with a results entry and never raises: a
\* store answer that is neither a keyed collection nor a list gives empty
\* results, a plain list becomes the results, a keyed collection without a
\* results entry gets an empty one
C26_ReadShapeNormalised ==
    ReadMade =>
        /\ ~last_read.raised
        /\ "results" \in DOMAIN last_read
        /\ AnsweredShape = "other" => last_read.results = << >>
        /\ AnsweredShape = "dict_without_results" => last_read.results = << >>
        /\ AnsweredShape = "raise" => last_read.results = << >>
        /\ AnsweredShape = "list" =>
              last_read.results
                  = Limited(last_read.found,
                            last_read.calls[Len(last_read.calls)].params.limit)

\* a store holding a record answers the first call with a plain list
C26_Witness ==
    /\ ReadMade
    /\ last_read.outcomes[1] = "list"
    /\ last_read.found # << >>
    /\ last_read.results = last_read.found

(***************************************************************************)
(* A direct-delegate run followed by full orchestration runs of the same   *)
(* user and session                                                        *)
(***************************************************************************)
\* first call: process_user_message(m, "u1", "s1", target_agent = a specialist)
DelegateFirst(user_message, target_agent) ==
    /\ runs = 0
    /\ StartRun(user_message, "u1", "s1", target_agent)

\* later calls: process_user_message(m, "u1", "s1") without a target
OrchestrateLater(user_message) ==
    /\ runs >= 1
    /\ runs < MaxRuns + 1
    /\ StartRun(user_message, "u1", "s1", None)

NextSharing ==
    \/ \E a \in Specialists : DelegateFirst(MsgOne, a)
    \/ \E m \in Messages : OrchestrateLater(m)
    \/ BeginAgentCall
    \/ \E llm \in LlmOutcomes, o1 \in {"ok", "raise"}, o2 \in {"ok", "raise"} :
           EndAgentCall(llm, o1, o2)
    \/ SelectSpecialists

SpecSharing == Init /\ [][NextSharing]_vars

\* the write-back of the direct run put a record into the store: the store was
\* empty before the direct run, so its record is the oldest one, written under
\* the specialist's id for the specialist prompt of the user's message
DirectRecordStored ==
    /\ Len(memory) >= 1
    /\ memory[1].agent_id \in Specialists
    /\ memory[1].text[1].q
          = _build_specialist_prompt(memory[1].agent_id, memory[1].text[1].q.msg, EmptyText)

\* the record of the direct run (the store was empty before it)
DirectRecord == memory[1]

\* a record is in the memory layer or in the collaboration layer of a payload
InSharedLayers(rec, messages) ==
    \E i \in 1..Len(messages) :
        /\ messages[i].layer \in {"memory", "collaboration"}
        /\ PrintedInText(rec, messages[i].content)

\* the coordinating role is being invoked in a full run that follows the direct run
CoordinatorInvokedLater ==
    /\ runs >= 2
    /\ FullRun
    /\ pending # NoCall
    /\ pending.kw.agent_id = PROJECT_BRAIN_ID

\* C27: once a specialist has answered in a direct run and its interaction was
\* written to the store, every later full run of the same user and session
\* hands the coordinating role a context whose memory layer or collaboration
\* layer holds that record
C27_CoordinatorSeesSpecialistMemory ==
    (CoordinatorInvokedLater /\ DirectRecordStored) =>
        /\ DirectRecord.user_id = run.user_id
        /\ InSharedLayers(DirectRecord, pending.payload.messages)

\* the summary call of the later run: the specialist's record is in the memory
\* layer and in the collaboration layer of the coordinating role's context
C27_Witness ==
    /\ CoordinatorInvokedLater
    /\ DirectRecordStored
    /\ pending.phase = "summary"
    /\ DirectRecord.session_id = run.session_id
    /\ \E i, j \in 1..Len(pending.payload.messages) :
          /\ pending.payload.messages[i].layer = "memory"
          /\ PrintedInText(DirectRecord, pending.payload.messages[i].content)
          /\ pending.payload.messages[j].layer = "collaboration"
          /\ PrintedInText(DirectRecord, pending.payload.messages[j].content)

(***************************************************************************)
(* get_collaborative_context called on its own                             *)
(***************************************************************************)
\* most records in the store when the aggregation is called
MaxStored == 2

\* a record of each scope, as _store_memory writes it for "u1" in session "s1"
ScopedRecord(agent_id, memory_type, content) ==
    StoredRecord([user_id |-> "u1", agent_id |-> agent_id, session_id |-> "s1"],
                 <<content>>, FullMetadata("assistant", agent_id, memory_type))

CollabRecordSet ==
    { ScopedRecord(None, "user", MsgFallback),
      ScopedRecord("project_brain", "project", MsgOne),
      ScopedRecord("algo_scientist", "expert", MsgOne) }

CollabStores == UNION {[1..n -> CollabRecordSet] : n \in 0..MaxStored}

\* what the store does to the first attempt of every search and to its retry
CollabOutcomes ==
    {<<"dict", "dict">>, <<"list", "dict">>, <<"raise", "dict">>, <<"raise", "raise">>}

CollabAgents == {"project_brain", "algo_scientist"}
CollabLists ==
    { << >>, <<"product_lead", "algo_scientist", "solution_architect">>,
      <<"algo_scientist", "qa_tester">> }

InitCollaboration ==
    /\ \E st \in StoreChoices : /\ capabilities = st.capabilities
                                /\ store_filters = st.filters
    /\ memory \in CollabStores
    /\ cache = [u \in Users |-> << >>]
    /\ pc = "idle"
    /\ run = NoRun
    /\ pending = NoCall
    /\ result = NoResult
    /\ llm_log = << >>
    /\ build_log = << >>
    /\ selector_log = << >>
    /\ write_log = << >>
    /\ last_read = NoRead
    /\ faults = 0
    /\ runs = 0
    /\ ComponentsIdle

\* memory_manager.get_collaborative_context(query, "u1", agent_id, session_id,
\* collaborators, limit); o: what the store does to the first attempt of every
\* search and to its retry
GatewayCollaborative(agent_id, session_id, collaborators, o) ==
    /\ last_read' = [op |-> "get_collaborative_context", user_id |-> "u1",
                     agent_id |-> agent_id, session_id |-> session_id,
                     collaborators |-> collaborators, outcomes |-> o,
                     result |-> get_collaborative_context(
                                    StoreView(memory, capabilities, store_filters,
                                              o[1], o[2]),
                                    "u1", agent_id, session_id, collaborators)]
    /\ UNCHANGED <<memory, write_log>>
    /\ GatewayFrame

NextCollaboration ==
    \E a \in CollabAgents, sid \in GatewaySessions, cs \in CollabLists, o \in CollabOutcomes :
        GatewayCollaborative(a, sid, cs, o)

SpecCollaboration == InitCollaboration /\ [][NextCollaboration]_vars

\* the aggregation was called
Aggregated == last_read.op = "get_collaborative_context"

\* records returned by the first n searches of a call
RECURSIVE ReturnedBy(_, _, _)
ReturnedBy(store, searches, n) ==
    IF n = 0 THEN 0
    ELSE Len(SearchResults(store, "u1", searches[n])) + ReturnedBy(store, searches, n - 1)

\* C31: get_collaborative_context makes, in this order, one user-scope search,
\* one search in the role's own scope (project for the coordinating role,
\* expert otherwise), one search per collaborator and one unscoped broad
\* search; it does not raise, memories_count is the number of records returned
\* by the user, own-scope and collaborator searches, and memory_used is
\* memories_count > 0
C31_AggregationSearchesAndCount ==
    Aggregated =>
        LET r == last_read.result
            n == Len(last_read.collaborators)
            store == StoreView(memory, capabilities, store_filters,
                               last_read.outcomes[1], last_read.outcomes[2])
        IN  /\ ~r.raised
            /\ Len(r.searches) = n + 3
            /\ r.searches[1].agent_id = None
            /\ r.searches[1].memory_type = "user"
            /\ r.searches[2].agent_id = last_read.agent_id
            /\ r.searches[2].memory_type
                  = (IF last_read.agent_id = PROJECT_BRAIN_ID THEN "project" ELSE "expert")
            /\ \A i \in 1..n :
                  /\ r.searches[2 + i].agent_id = last_read.collaborators[i]
                  /\ r.searches[2 + i].memory_type = "expert"
            /\ r.searches[n + 3].agent_id = None
            /\ r.searches[n + 3].memory_type = None
            /\ r.memories_count = ReturnedBy(store, r.searches, n + 2)
            /\ r.memory_used = (r.memories_count > 0)

\* the coordinating role with its three collaborators: records are counted
C31_Witness ==
    /\ Aggregated
    /\ last_read.agent_id = PROJECT_BRAIN_ID
    /\ Len(last_read.collaborators) = 3
    /\ last_read.result.memory_used
    /\ last_read.result.memories_count >= 2

\* nothing found: the "no memories" text, memory_used false and count 0
C31_WitnessEmpty ==
    /\ Aggregated
    /\ memory = << >>
    /\ ~last_read.result.memory_used
    /\ last_read.result.memories_count = 0
    /\ last_read.result.formatted.msg = <<Section("no_memories", << >>)>>

(***************************************************************************)
(* The history layer of build_payload                                      *)
(***************************************************************************)
\* the cached entries inside the history window
WindowOf(cached_messages) ==
    IF MaxHistoryMessages <= 0 THEN cached_messages
    ELSE LastOf(cached_messages, MaxHistoryMessages)

\* the history fragments of the payload built
HistoryLayer == LayerOf(build.payload.messages, "history")

\* every cached entry is a turn: a dict that carries a content
CachedTurnsOnly(cached_messages) ==
    \A i \in 1..Len(cached_messages) :
        IsDict(cached_messages[i]) /\ "content" \in DOMAIN cached_messages[i]

\* C32: the history layer is the last max_history of the cached turns handed to
\* build_payload (all of them when max_history <= 0), in their order, after the
\* system fragments and before the current message; a turn without a role is
\* there with the default role
C32_HistoryIsLastTurns ==
    (build.called /\ ~build.payload.degraded /\ CachedTurnsOnly(build.cached_messages)) =>
        LET window == WindowOf(build.cached_messages)
        IN  /\ InLayerOrder(build.payload.messages)
            /\ Len(HistoryLayer) = Len(window)
            /\ \A i \in 1..Len(window) :
                  /\ HistoryLayer[i].content = window[i].content
                  /\ HistoryLayer[i].role
                        = (IF "role" \in DOMAIN window[i] THEN window[i].role ELSE "system")

\* more turns than the window, all different: the oldest one is cut
C32_Witness ==
    /\ build.called
    /\ ~build.payload.degraded
    /\ CachedTurnsOnly(build.cached_messages)
    /\ Len(build.cached_messages) > MaxHistoryMessages
    /\ build.cached_messages[1].content # build.cached_messages[2].content
    /\ Len(HistoryLayer) = MaxHistoryMessages
    /\ HistoryLayer[1].content = build.cached_messages[Len(build.cached_messages)
                                                         - MaxHistoryMessages + 1].content

\* a turn without a role, kept with the default role between its neighbours
C32_WitnessNoRole ==
    /\ build.called
    /\ ~build.payload.degraded
    /\ Len(build.cached_messages) = 3
    /\ "role" \notin DOMAIN build.cached_messages[2]
    /\ Len(HistoryLayer) = 3
    /\ HistoryLayer[2].role = "system"
    /\ HistoryLayer[2].content = build.cached_messages[2].content

\* the dict entries of a list
DictEntries(entries) == SelectSeq(entries, IsDict)

\* C33: a history entry without role or without content is coerced in place:
\* every dict entry inside the window yields a fragment, and every fragment of
\* a payload has a role and a content
C33_MalformedEntryCoerced ==
    build.called =>
        /\ \A i \in 1..Len(build.payload.messages) :
              /\ "role" \in DOMAIN build.payload.messages[i]
              /\ "content" \in DOMAIN build.payload.messages[i]
        /\ ~build.payload.degraded =>
              Len(HistoryLayer) = Len(DictEntries(WindowOf(build.cached_messages)))

(***************************************************************************)
(* What a run keeps of a failed or empty invocation                        *)
(***************************************************************************)
\* the invocations of the run that have returned
Returned == {i \in 1..Len(llm_log) : llm_log[i].event = "end"}

\* C34: the response _call_agent returns never has empty content: an empty
\* reply is replaced by a placeholder, so the project summary, every
\* SpecialistResult and the final response of a run have content
C34_NoEmptyContent ==
    /\ \A i \in Returned : Truthy(llm_log[i].content)
    /\ pc \in {"select", "specialists", "final"} => Truthy(run.project_summary)
    /\ \A j \in 1..Len(run.specialist_outputs) : Truthy(run.specialist_outputs[j].content)
    /\ pc = "done" => Truthy(result.final_response.content)

\* the step in which an invocation whose model call raised returns
FailedCallReturns ==
    /\ pending # NoCall
    /\ pending' = NoCall
    /\ llm_log'[Len(llm_log')].event = "end"
    /\ llm_log'[Len(llm_log')].outcome = "raise"

\* C35: an invocation whose model call raised is finalized like any other, with
\* the failure text as the assistant response: with persist set the cache gets
\* the user turn and an assistant turn carrying the failure text (and is left
\* alone otherwise), one write-back of the failure text is attempted, and the
\* failure text of the summary step becomes the project summary handed to the
\* later steps of the run
C35_FailurePersisted ==
    [][ /\ FailedCallReturns =>
              /\ llm_log'[Len(llm_log')].content = LlmErrorText
              /\ cache' = IF pending.kw.persist_history
                          THEN TwoTurnsAppended(cache, run.user_id, pending.kw.message,
                                                LlmErrorText)
                          ELSE cache
              /\ Len(write_log') = Len(write_log) + 1
              /\ write_log'[Len(write_log')].content.a = LlmErrorText
              /\ pending.phase = "summary" => run'.project_summary = LlmErrorText
        /\ (pending = NoCall /\ pending' # NoCall /\ FullRun
            /\ pending'.phase \in {"specialists", "final"}
            /\ llm_log[2].outcome = "raise") =>
              /\ run.project_summary = LlmErrorText
              /\ pending'.args.extra_context.msg = <<LlmErrorText.kind>> ]_vars

\* the final synthesis of a full run failed: the cache ends with the synthesis prompt and the failure text
C35_Witness ==
    /\ pc = "done"
    /\ FullRun
    /\ llm_log[Len(llm_log)].outcome = "raise"
    /\ llm_log[Len(llm_log)].phase = "final"
    /\ Len(cache[run.user_id]) = 2
    /\ cache[run.user_id][1].content.kind = "final_prompt"
    /\ cache[run.user_id][2] = ChatMessage("assistant", LlmErrorText)
    /\ write_log[Len(write_log)].content.a = LlmErrorText

\* the summary failed: the specialists are invoked with the failure text as summary
C35_WitnessSummary ==
    /\ FullRun
    /\ pending # NoCall
    /\ pending.phase = "specialists"
    /\ llm_log[2].outcome = "raise"
    /\ run.project_summary = LlmErrorText
    /\ pending.args.extra_context.msg = <<LlmErrorText.kind>>

\* the prompts whose invocation is cached: the specialist prompt of a direct
\* run, the synthesis prompt of a full run
CachedPrompts ==
    {_build_specialist_prompt(a, m, EmptyText) : a \in Specialists, m \in Messages}
    \cup {_build_final_prompt(m, EmptyText, << >>) : m \in Messages}

\* C36: the user turn a run appends to the cache carries the prompt handed to
\* the model (the specialist prompt of a direct run, the synthesis prompt of a
\* full run), not the raw user message; the history layer of a later run holds
\* the earlier message only inside such a prompt
C36_CachedUserTurnIsPrompt ==
    /\ \A u \in Users : \A i \in 1..Len(cache[u]) :
          cache[u][i].role = "user" => cache[u][i].content \in CachedPrompts
    /\ pending # NoCall =>
          \A i \in 1..Len(pending.payload.messages) :
              (pending.payload.messages[i].layer = "history"
               /\ pending.payload.messages[i].role = "user") =>
                  pending.payload.messages[i].content \in CachedPrompts
    /\ (pc = "done" /\ Len(cache[run.user_id]) >= 2) =>
          LET last == cache[run.user_id][Len(cache[run.user_id]) - 1]
          IN  /\ last.role = "user"
              /\ last.content.msg = run.user_message
              /\ last.content.kind
                    = (IF run.target_agent # None THEN "specialist_prompt" ELSE "final_prompt")

\* a full run after the direct run: its invocation sees the direct run's
\* specialist prompt as a user turn of the history layer
C36_Witness ==
    /\ runs >= 2
    /\ FullRun
    /\ pending # NoCall
    /\ \E i \in 1..Len(pending.payload.messages) :
          /\ pending.payload.messages[i].layer = "history"
          /\ pending.payload.messages[i].role = "user"
          /\ pending.payload.messages[i].content.kind = "specialist_prompt"
          /\ pending.payload.messages[i].content.msg = MsgOne

(***************************************************************************)
(* The write-back of every invocation                                      *)
(***************************************************************************)
\* an invocation returns in this step
InvocationReturns == pending # NoCall /\ pending' = NoCall

\* the number of invocations a finished run has made
InvocationsOfRun == IF FullRun THEN Len(run.specialist_ids) + 2 ELSE 1

\* what a step of the pipeline does to the log of write-backs
WriteBackStep ==
    /\ InvocationReturns =>
          /\ Len(write_log') = Len(write_log) + 1
          /\ SubSeq(write_log', 1, Len(write_log)) = write_log
          /\ write_log'[Len(write_log')].op = "store_memory"
          /\ write_log'[Len(write_log')].content.q = pending.kw.message
          /\ write_log'[Len(write_log')].content.a = llm_log'[Len(llm_log')].content
    /\ ~InvocationReturns => (write_log' = write_log \/ write_log' = << >>)
    /\ (pending = NoCall /\ pending' # NoCall) =>
          Len(write_log) = Len(SelectSeq(llm_log, LAMBDA e : e.event = "end"))

\* C37: every invocation is followed by exactly one store_memory call of the
\* gateway, whatever its persist flag: the step in which an invocation returns
\* adds one write-back for that invocation, no other step of a run adds one, so
\* the write-back lies before the next invocation starts; a finished full run
\* with k specialists has made k + 2 write-backs and a direct run one
C37_OneWriteBackPerInvocation ==
    /\ [][WriteBackStep]_vars
    /\ [](pc = "done" => Len(write_log) = InvocationsOfRun)

\* a finished full run with one specialist: three write-backs, the first two
\* for invocations that were not persisted
C37_Witness ==
    /\ pc = "done"
    /\ FullRun
    /\ Len(run.specialist_ids) = 1
    /\ Len(write_log) = 3
    /\ Len(cache[run.user_id]) = 2

\* a finished direct run: one write-back
C37_WitnessDirect ==
    /\ pc = "done"
    /\ ~FullRun
    /\ Len(write_log) = 1

(***************************************************************************)
(* The retry of a failed read                                              *)
(***************************************************************************)
\* the retry of the last read, made after its first store call raised
RetryOfRead == last_read.calls[2]

\* C38: when the first store call of a scoped search_memories or
\* get_all_memories raises, exactly one retry is made, carrying the user id
\* (and the query) and no role, session, scope or domain and no limit of the
\* caller; what the retry finds is returned as the result of the scoped call
C38_RetryDropsScope ==
    ReadMade =>
        /\ ~last_read.calls[1].raised => Len(last_read.calls) = 1
        /\ last_read.calls[1].raised =>
              /\ Len(last_read.calls) = 2
              /\ RetryOfRead.params.user_id = last_read.user_id
              /\ RetryOfRead.params.agent_id = None
              /\ RetryOfRead.params.session_id = None
              /\ RetryOfRead.params.memory_type = None
              /\ RetryOfRead.params.expert_domain = None
              /\ RetryOfRead.params = SimplifiedParams(last_read.user_id)
              /\ last_read.outcomes[2] \in {"dict", "list"} =>
                    last_read.results
                        = Limited(Matches(memory, SimplifiedParams(last_read.user_id)),
                                  SimplifiedParams(last_read.user_id).limit)
              /\ last_read.outcomes[2] \notin {"dict", "list"} => last_read.results = << >>

\* a read scoped to a role, on a store that takes the role id, whose first call
\* raised: it returns a record of another role
C38_Witness ==
    /\ ReadMade
    /\ last_read.agent_id = "algo_scientist"
    /\ ReadAgentCapability
    /\ last_read.calls[1].params.agent_id = "algo_scientist"
    /\ last_read.calls[1].raised
    /\ ~RetryOfRead.raised
    /\ \E i \in 1..Len(last_read.results) : last_read.results[i].agent_id # "algo_scientist"

(***************************************************************************)
(* Runs of one user under two sessions: the first run under "s1", the      *)
(* later ones under "s2", with or without the console's session switch in  *)
(* between                                                                 *)
(***************************************************************************)
MaxSessionRuns == 3

SessionTargets == {None, "algo_scientist"}

\* chat_endpoint, the first request: process_user_message(message, "u1", "s1")
FirstSessionRun(user_message, target_agent) ==
    /\ runs = 0
    /\ StartRun(user_message, "u1", "s1", target_agent)

\* chat_endpoint with another session id: process_user_message(message, "u1", "s2")
chat_endpoint(user_message, target_agent) ==
    /\ runs >= 1
    /\ runs < MaxSessionRuns
    /\ StartRun(user_message, "u1", "s2", target_agent)

\* ChatApplication._switch_session: the console takes the new session id and
\* clears the cache of the current user
_switch_session(new_session) ==
    /\ pc = "done"
    /\ runs < MaxSessionRuns
    /\ cache' = clear(cache, "u1")
    /\ cache_op' = [called |-> TRUE, op |-> "switch_session", user_id |-> "u1",
                    session |-> new_session, after_run |-> runs]
    /\ UNCHANGED <<capabilities, store_filters, memory>>
    /\ UNCHANGED pipeline_vars
    /\ UNCHANGED <<build, selection, appended, threads>>

NextSessions ==
    \/ \E t \in SessionTargets : FirstSessionRun(MsgFallback, t)
    \/ \E t \in SessionTargets : chat_endpoint(MsgOne, t)
    \/ _switch_session("s2")
    \/ BeginAgentCall
    \/ \E llm \in LlmOutcomes : EndAgentCall(llm, "ok", "ok")
    \/ SelectSpecialists

SpecSessions == Init /\ [][NextSessions]_vars

\* the cache was cleared by a session switch after the first run
SwitchedAfterFirstRun == cache_op.called /\ cache_op.after_run = 1

\* an invocation of the second run (the first under "s2") is in flight
SecondRunInvocation == runs = 2 /\ pending # NoCall

\* a step starts a run under another session than the run before
SessionChanges == runs >= 1 /\ runs' = runs + 1 /\ run'.session_id # run.session_id

\* C39: the cache is keyed by the user id alone: starting a run under another
\* session leaves the user's buffer as it is, so the turns cached by the run
\* under "s1" are the history of the invocations of the next run, made under
\* "s2", unless the buffer was cleared in between (the console's session
\* switch clears it, the entry through process_user_message does not)
C39_CacheSharedAcrossSessions ==
    /\ [][SessionChanges => cache' = cache]_vars
    /\ [](SecondRunInvocation =>
            /\ run.session_id = "s2"
            /\ IF SwitchedAfterFirstRun
               THEN LayerOf(pending.payload.messages, "history") = << >>
               ELSE LET h == LayerOf(pending.payload.messages, "history")
                    IN  /\ Len(h) = 2
                        /\ h[1].role = "user"
                        /\ h[1].content \in CachedPrompts
                        /\ h[1].content.msg = MsgFallback
                        /\ h[2].role = "assistant")

\* an invocation under "s2" whose history layer holds the prompt cached by the
\* run under "s1"
C39_Witness ==
    /\ SecondRunInvocation
    /\ run.session_id = "s2"
    /\ ~cache_op.called
    /\ \E i \in 1..Len(pending.payload.messages) :
          /\ pending.payload.messages[i].layer = "history"
          /\ pending.payload.messages[i].role = "user"
          /\ pending.payload.messages[i].content.msg = MsgFallback

\* an invocation under "s2" after the console's switch: no history
C39_WitnessSwitched ==
    /\ SecondRunInvocation
    /\ SwitchedAfterFirstRun
    /\ LayerOf(pending.payload.messages, "history") = << >>

(***************************************************************************)
(* The shape of every buffer under sequential use                          *)
(***************************************************************************)
\* the roles of the turns of a buffer alternate
Alternating(q) == \A i \in 1..(Len(q) - 1) : q[i].role # q[i + 1].role

\* a buffer of the conversation cache as sequential use leaves it
WellFormedBuffer(q) ==
    /\ Len(q) <= CONVERSATION_CACHE_SIZE
    /\ \A i \in 1..Len(q) : q[i].role \in {"user", "assistant"}
    /\ Alternating(q)
    /\ q # << >> => q[Len(q)].role = "assistant"

\* an invocation starts in this step: the cache is read and the payload built
InvocationStarts == pending = NoCall /\ pending' # NoCall

\* C40: with the runs made one after the other, every buffer holds at most
\* CONVERSATION_CACHE_SIZE turns whose roles alternate between user and
\* assistant, and a buffer that is not empty ends with an assistant turn; an
\* invocation made with persist_history false leaves every buffer unchanged,
\* and so does building a payload
C40_BufferShape ==
    /\ [](\A u \in DOMAIN cache : WellFormedBuffer(cache[u]))
    /\ [][(InvocationReturns /\ ~pending.kw.persist_history) => cache' = cache]_vars
    /\ [][InvocationStarts => cache' = cache]_vars

\* the third run was cached into a full buffer: the oldest turn left, and the
\* buffer now starts with an assistant turn
C40_Witness ==
    /\ runs = 3
    /\ pc = "done"
    /\ Len(cache["u1"]) = CONVERSATION_CACHE_SIZE
    /\ cache["u1"][1].role = "assistant"
    /\ cache["u1"][CONVERSATION_CACHE_SIZE].role = "assistant"

\* an invocation that is not persisted returned while the buffer held turns
C40_WitnessNotPersisted ==
    /\ runs >= 2
    /\ FullRun
    /\ pc = "select"
    /\ Len(cache["u1"]) >= 2

====
